---- MODULE Spec2Model ----
(***************************************************************************)
(* Model of lib/service/stats-collection.js (class StatsCollection) and of *)
(* the configuration getters it reads (lib/service/config.js).             *)
(*                                                                         *)
(* JavaScript objects are functions from property names to values; a       *)
(* property that is undefined is a name outside the DOMAIN.  The stats     *)
(* objects of the services live in a heap, because the code keeps and      *)
(* mutates them by reference: this.stats maps a service to the identity of *)
(* its object, an asynchronous handler keeps the identity it read, and in  *)
(* compatibility mode this.partialStats[service] is the very same object.  *)
(* A number that may also be null is a sequence: <<>> is null, <<n>> is n. *)
(***************************************************************************)
EXTENDS Integers, Sequences, FiniteSets, TLC

(* ---------------------------------------------------------------- bounds *)
MaxTime == 4            \* the clock stops here
UpdateInterval == 2     \* throttle window, in clock ticks
MaxInflight == 1        \* transmissions awaited at the same time
MaxObj == 6             \* heap cells
MaxTasks == 2           \* handlers suspended at the same time
MaxEvents == 3          \* handler runs and clock adjustments explored in one behaviour
MaxFailures == 1        \* failed invocations of bootstrap steps in one behaviour

(* ------------------------------------------------------------- constants *)
fullNodeService == "fullNode"
walletService == "wallet"
farmerService == "farmer"
harvesterService == "harvester"
plotterService == "plotter"
allServices == <<fullNodeService, walletService, farmerService, harvesterService, plotterService>>
Services == {allServices[i] : i \in DOMAIN allServices}

VARIABLES
  config,                   \* the loaded configuration file (config.config)
  phase,                    \* how far init() has come
  now,                      \* the clock (Date.now())
  heap,                     \* heap[id]: the object with identity id
  stats,                    \* this.stats: service -> identity, 0 when the Map has no entry
  partialStats,             \* this.partialStats: the object of pending partials
  throttle,                 \* the state of the lodash throttle closure
  inflight,                 \* transmissions handed to the transport and not yet settled
  view,                     \* history: the payloads handed to the transport, applied in order
  enabledServices,          \* this.enabledServices
  isServiceRunning,         \* this.isServiceRunning
  walletIsLoggedIn,         \* this.walletIsLoggedIn
  farmingInfos,             \* this.farmingInfos
  harvesterResponseTimes,   \* the closure variable of init()
  tasks,                    \* asynchronous handlers suspended at an await
  burst,                    \* history: the requests since the dispatcher was last idle
  enqueued,                 \* history: each service's stats as of its last enqueue
  events,                   \* history: number of handler runs so far
  notices,                  \* history: the farmer notices handled so far
  last,                     \* history: what the last step did
  jobLogs,                  \* the closure variable jobLogs of init(): job id -> log text
  boot,                     \* where init() stands after the handlers are registered
  notifications             \* history: the calls of sendNotification so far

vars == <<config, phase, now, heap, stats, partialStats, throttle, inflight, view, enabledServices,
          isServiceRunning, walletIsLoggedIn, farmingInfos, harvesterResponseTimes,
          tasks, burst, enqueued, events, notices, last, jobLogs, boot,
          notifications>>

\* the state that only the plotter handler, the full-node poll and the
\* bootstrap of init() touch
aux == <<jobLogs, boot, notifications>>

(* --------------------------------------------------------------- objects *)
EmptyObj == [k \in {} |-> 0]
Has(obj, k) == k \in DOMAIN obj
Put(obj, k, v) == [x \in DOMAIN obj \cup {k} |-> IF x = k THEN v ELSE obj[x]]
Null == <<>>
\* what reading a key that an object does not have gives (keys hold numbers)
Undefined == 0 - 1
Num(n) == <<n>>

\* the closed schema of the stats objects: which properties hold plain
\* objects and which hold arrays (lodash tells them apart at run time)
PlainObjectKeys == {"blockchainState", "syncStatus", "farmedAmount", "ogPlots", "nftPlots"}
ArrayKeys == {"farmingInfos", "wallets", "jobs"}

\* the customizer handed to mergeWith: an array already in the destination
\* is replaced by the source value
\* a faulty customizer: it returns undefined, and lodash merges the two
\* arrays position by position
customizer_Undefined(objValue, srcValue) ==
  [i \in 1..(IF Len(objValue) > Len(srcValue) THEN Len(objValue) ELSE Len(srcValue)) |->
     IF i <= Len(srcValue) THEN srcValue[i] ELSE objValue[i]]

customizer(objValue, srcValue) == srcValue

\* lodash mergeWith(object, source, customizer) on the schema above: plain
\* objects are merged recursively (a missing destination is a fresh clone),
\* an array in the destination is replaced through the customizer, an array
\* without destination is cloned, every other value is assigned
RECURSIVE mergeWith(_, _)
mergeWith(object, source) ==
  [k \in DOMAIN object \cup DOMAIN source |->
     IF k \notin DOMAIN source THEN object[k]
     ELSE IF k \in PlainObjectKeys
       THEN mergeWith(IF Has(object, k) THEN object[k] ELSE EmptyObj, source[k])
     ELSE IF k \in ArrayKeys /\ Has(object, k)
       THEN customizer(object[k], source[k])
     ELSE source[k]]

(* ---------------------------------------------------------------- config *)
\* get enableCompatibilityMode(): the configured value when there is one;
\* otherwise chiaDashboardCoreUrl !== Config.defaultFoxyDashboardApiUrl, and
\* the class has no such static property, so the comparison is with undefined
enableCompatibilityMode ==
  IF config.enableCompatibilityMode # Null THEN config.enableCompatibilityMode[1]
  ELSE TRUE

Min(a, b) == IF a < b THEN a ELSE b

\* get maximumFarmingInfos(): Math.min(configured || 20, 100); 0 stands for
\* a value that is not configured
DefaultMaximumFarmingInfos == 20
MaximumFarmingInfosCeiling == 100
maximumFarmingInfos ==
  Min(IF config.maximumFarmingInfos # 0 THEN config.maximumFarmingInfos
      ELSE DefaultMaximumFarmingInfos, MaximumFarmingInfosCeiling)

\* get responseTimeSampleSize(): configured || 100
DefaultResponseTimeSampleSize == 100
responseTimeSampleSize ==
  IF config.responseTimeSampleSize # 0 THEN config.responseTimeSampleSize
  ELSE DefaultResponseTimeSampleSize

(* ------------------------------------------------- pending partial entries *)
\* an entry of this.partialStats: null (tombstone), an object owned by the
\* pending batch, or (compatibility mode) a reference to a stats object
Tombstone == [t |-> "null"]
Val(v) == [t |-> "val", v |-> v]
Ref(id) == [t |-> "ref", id |-> id]

\* the value a payload has when it is read with the heap h
Resolve(p, h) ==
  [s \in DOMAIN p |-> IF p[s].t = "ref" THEN Val(h[p[s].id]) ELSE p[s]]

(* ------------------------------------------------------------ the object *)
\* the fields of `this` that the handlers read and write, as one record, so
\* that a handler is a function from this record to this record; out
\* collects the payloads the step hands to the transport
SC == [heap |-> heap, stats |-> stats, partialStats |-> partialStats,
       throttle |-> throttle, inflight |-> inflight, tasks |-> tasks,
       burst |-> burst, enqueued |-> enqueued, out |-> <<>>]

\* an identity is live while something can still reach its object
Referenced(sc, id) ==
  \/ \E s \in Services : sc.stats[s] = id
  \/ \E s \in DOMAIN sc.partialStats : sc.partialStats[s] = Ref(id)
  \/ \E i \in DOMAIN sc.inflight :
       \E s \in DOMAIN sc.inflight[i].payload : sc.inflight[i].payload[s] = Ref(id)
  \/ \E i \in DOMAIN sc.tasks : sc.tasks[i].obj = id

FreeIds(sc) == {id \in 1..MaxObj : ~Referenced(sc, id)}
CanAlloc(sc) == FreeIds(sc) # {}
NewId(sc) == CHOOSE id \in FreeIds(sc) : \A other \in FreeIds(sc) : id <= other

\* `this.stats.has(service) ? this.stats.get(service) : {}`: the identity the
\* handler works on, and the heap with the fresh object when there was none
StatsId(sc, service) ==
  IF sc.stats[service] # 0 THEN sc.stats[service] ELSE NewId(sc)
WithStatsObj(sc, service) ==
  IF sc.stats[service] # 0 THEN sc
  ELSE [sc EXCEPT !.heap[NewId(sc)] = EmptyObj]

(* ------------------------------------------------------ the dispatcher *)
NoBurst == [open |-> FALSE, valid |-> FALSE, t0 |-> 0, n |-> 0, tx |-> 0,
            all |-> EmptyObj, tail |-> EmptyObj]

\* the throttled function: this.partialStats is replaced by a fresh object
\* before the transport is awaited; the transport holds the old object
updateStatsThrottledBody(sc) ==
  [sc EXCEPT !.inflight = Append(@, [payload |-> sc.partialStats,
                                     issued |-> Resolve(sc.partialStats, sc.heap)]),
             !.out = Append(@, Resolve(sc.partialStats, sc.heap)),
             !.partialStats = EmptyObj]

\* lodash debounce, as throttle(func, wait, {leading: true, trailing: true})
\* configures it: maxWait = wait.  lastArgs is only ever the object that
\* this.partialStats holds at that time, so it is a flag here.
shouldInvoke(th, time) ==
  \/ ~th.called
  \/ time - th.lastCallTime >= UpdateInterval
  \/ time - th.lastCallTime < 0
  \/ time - th.lastInvokeTime >= UpdateInterval

remainingWait(th, time) ==
  LET timeWaiting == UpdateInterval - (time - th.lastCallTime)
      maxLeft == UpdateInterval - (time - th.lastInvokeTime)
  IN IF timeWaiting < maxLeft THEN timeWaiting ELSE maxLeft

invokeFunc(sc, time) ==
  updateStatsThrottledBody(
    [sc EXCEPT !.throttle.lastArgs = FALSE, !.throttle.lastInvokeTime = time,
               !.burst.tx = IF sc.burst.open THEN @ + 1 ELSE @])

leadingEdge(sc, time) ==
  invokeFunc([sc EXCEPT !.throttle.lastInvokeTime = time, !.throttle.timer = TRUE,
                        !.throttle.fireAt = time + UpdateInterval], time)

\* a faulty trailingEdge: the trailing call is dropped
trailingEdge_Dropped(sc, time) ==
  [sc EXCEPT !.throttle.timer = FALSE, !.throttle.fireAt = 0, !.throttle.lastArgs = FALSE]

trailingEdge(sc, time) ==
  LET s1 == [sc EXCEPT !.throttle.timer = FALSE, !.throttle.fireAt = 0]
  IN IF s1.throttle.lastArgs THEN invokeFunc(s1, time)
     ELSE [s1 EXCEPT !.throttle.lastArgs = FALSE]

timerExpired(sc, time) ==
  IF shouldInvoke(sc.throttle, time) THEN trailingEdge(sc, time)
  ELSE [sc EXCEPT !.throttle.fireAt = time + remainingWait(sc.throttle, time)]

\* a call of this.updateStatsThrottled(this.partialStats)
updateStatsThrottled(sc, time) ==
  LET isInvoking == shouldInvoke(sc.throttle, time)
      s1 == [sc EXCEPT !.throttle.lastArgs = TRUE, !.throttle.called = TRUE,
                       !.throttle.lastCallTime = time]
  IN IF isInvoking /\ ~s1.throttle.timer THEN leadingEdge(s1, time)
     ELSE IF isInvoking
       THEN invokeFunc([s1 EXCEPT !.throttle.fireAt = time + UpdateInterval], time)
     ELSE IF ~s1.throttle.timer
       THEN [s1 EXCEPT !.throttle.timer = TRUE, !.throttle.fireAt = time + UpdateInterval]
     ELSE s1

\* the dispatcher is idle: no timer is armed and a call would transmit at once
Idle(th, time) == ~th.timer /\ shouldInvoke(th, time)

(* --------------------------------------------------- the snapshot store *)
\* a faulty setStatsForServiceWithoutUpdate: the partial is enqueued but the
\* stats are not stored
setStatsForServiceWithoutUpdate_NotStored(sc, service, id, partial) ==
  LET pending == IF Has(sc.partialStats, service) /\ sc.partialStats[service].t = "val"
                 THEN sc.partialStats[service].v ELSE EmptyObj
  IN IF enableCompatibilityMode
     THEN [sc EXCEPT !.partialStats = Put(@, service, Ref(id))]
     ELSE [sc EXCEPT !.partialStats = Put(@, service, Val(mergeWith(pending, partial)))]

\* a faulty setStatsForServiceWithoutUpdate: the partial is merged in
\* compatibility mode as well
setStatsForServiceWithoutUpdate_AlwaysMerges(sc, service, id, partial) ==
  LET s1 == [sc EXCEPT !.stats[service] = id, !.enqueued[service] = sc.heap[id]]
      pending == IF Has(sc.partialStats, service) /\ sc.partialStats[service].t = "val"
                 THEN sc.partialStats[service].v ELSE EmptyObj
  IN [s1 EXCEPT !.partialStats = Put(@, service, Val(mergeWith(pending, partial)))]

setStatsForServiceWithoutUpdate(sc, service, id, partial) ==
  LET s1 == [sc EXCEPT !.stats[service] = id, !.enqueued[service] = sc.heap[id]]
      pending == IF Has(sc.partialStats, service) /\ sc.partialStats[service].t = "val"
                 THEN sc.partialStats[service].v ELSE EmptyObj
  IN IF enableCompatibilityMode
     THEN [s1 EXCEPT !.partialStats = Put(@, service, Ref(id))]
     ELSE [s1 EXCEPT !.partialStats = Put(@, service, Val(mergeWith(pending, partial)))]

\* history: what this request adds to the requests of the current burst
MergeInto(m, service, v) ==
  Put(m, service, mergeWith(IF Has(m, service) THEN m[service] ELSE EmptyObj, v))

NoteRequest(sc, service, eff, time) ==
  IF Idle(sc.throttle, time)
  THEN [sc EXCEPT !.burst = [open |-> TRUE, valid |-> TRUE, t0 |-> time, n |-> 1, tx |-> 0,
                             all |-> MergeInto(EmptyObj, service, eff), tail |-> EmptyObj]]
  ELSE IF sc.burst.open
  THEN [sc EXCEPT !.burst.n = @ + 1,
                  !.burst.valid = @ /\ ~shouldInvoke(sc.throttle, time),
                  !.burst.all = MergeInto(@, service, eff),
                  !.burst.tail = MergeInto(@, service, eff)]
  ELSE sc

\* history: something other than a setStatsForService request was enqueued
NoteOther(sc) == IF sc.burst.open THEN [sc EXCEPT !.burst.valid = FALSE] ELSE sc

\* a faulty setStatsForService: an undefined partial is enqueued as it is
setStatsForService_NoPlaceholder(sc, service, id, partialStatsArg, time) ==
  LET eff == IF enableCompatibilityMode THEN sc.heap[id] ELSE partialStatsArg
      s1 == NoteRequest(sc, service, eff, time)
  IN updateStatsThrottled(setStatsForServiceWithoutUpdate(s1, service, id, partialStatsArg), time)

setStatsForService(sc, service, id, partialStatsArg, time) ==
  LET partial == IF partialStatsArg = EmptyObj THEN [dummyToUpdateDate |-> TRUE]
                 ELSE partialStatsArg
      eff == IF enableCompatibilityMode THEN sc.heap[id] ELSE partial
      s1 == NoteRequest(sc, service, eff, time)
  IN updateStatsThrottled(setStatsForServiceWithoutUpdate(s1, service, id, partial), time)

\* a faulty deleteStatsForService: the stats are deleted but no tombstone is
\* enqueued
deleteStatsForService_NoTombstone(sc, service, time) ==
  updateStatsThrottled([NoteOther(sc) EXCEPT !.stats[service] = 0,
                                             !.enqueued[service] = EmptyObj], time)

deleteStatsForService(sc, service, time) ==
  updateStatsThrottled(
    [NoteOther(sc) EXCEPT !.stats[service] = 0,
                          !.enqueued[service] = EmptyObj,
                          !.partialStats = Put(sc.partialStats, service, Tombstone)], time)

\* history: a payload applied to what a receiver holds of each service: a
\* partial is merged as mergeWith merges it, null removes the service
Applied(held, payload) ==
  LET removed == {s \in DOMAIN payload : payload[s] = Tombstone}
  IN [s \in (DOMAIN held \cup DOMAIN payload) \ removed |->
        IF s \in DOMAIN payload
        THEN mergeWith(IF s \in DOMAIN held THEN held[s] ELSE EmptyObj, payload[s].v)
        ELSE held[s]]

RECURSIVE AppliedAll(_, _)
AppliedAll(held, payloads) ==
  IF payloads = <<>> THEN held
  ELSE AppliedAll(Applied(held, Head(payloads)), Tail(payloads))

\* what the step leaves behind: the fields of sc, unreachable objects cleared
Commit(sc) ==
  /\ view' = AppliedAll(view, sc.out)
  /\ heap' = [id \in 1..MaxObj |-> IF Referenced(sc, id) THEN sc.heap[id] ELSE EmptyObj]
  /\ stats' = sc.stats
  /\ partialStats' = sc.partialStats
  /\ throttle' = sc.throttle
  /\ inflight' = sc.inflight
  /\ tasks' = sc.tasks
  /\ burst' = sc.burst
  /\ enqueued' = sc.enqueued

(* ------------------------------------------------------------- full node *)
\* Capacity.fromBytes(bytes).capacityInGib, for whole numbers of GiB
BytesPerGib == 1073741824
capacityInGib(bytes) == bytes \div BytesPerGib

\* a blockchain state as the daemon reports it
RawBlockchainState(difficulty, space, synced, syncMode, tip, peak) ==
  [difficulty |-> difficulty, space |-> space,
   sync |-> [synced |-> synced, sync_mode |-> syncMode, sync_tip_height |-> tip],
   peak |-> [height |-> peak]]

getRelevantBlockchainState(blockchainState) ==
  IF blockchainState = Null THEN EmptyObj ELSE
  [difficulty |-> blockchainState.difficulty,
   spaceInGib |-> capacityInGib(blockchainState.space),
   syncStatus |-> [synced |-> blockchainState.sync.synced,
                   syncing |-> blockchainState.sync.sync_mode,
                   syncedHeight |-> blockchainState.peak.height,
                   tipHeight |-> IF blockchainState.sync.sync_tip_height # 0
                                 THEN blockchainState.sync.sync_tip_height
                                 ELSE blockchainState.peak.height]]

\* the keys of next whose values differ from prior's, with next's values
ChangedFields(prior, next, keys) ==
  [k \in {x \in keys : prior[x] # next[x]} |-> next[k]]

\* returns EmptyObj where the code returns undefined
getBlockchainStatePartialStats(blockchainState, newBlockchainState) ==
  LET top == ChangedFields(blockchainState, newBlockchainState, {"difficulty", "spaceInGib"})
      sync == ChangedFields(blockchainState.syncStatus, newBlockchainState.syncStatus,
                            {"synced", "syncing", "syncedHeight", "tipHeight"})
  IN IF sync = EmptyObj THEN top ELSE Put(top, "syncStatus", sync)

\* getBlockchainStatePartialStats reads syncStatus.synced of both states: a
\* TypeError when one of them has no syncStatus
PartialStatsThrows(blockchainState, newBlockchainState) ==
  ~Has(blockchainState, "syncStatus") \/ ~Has(newBlockchainState, "syncStatus")

\* whether the onNewBlockchainState handler rejects with this payload
onNewBlockchainStateThrows(sc, blockchainState) ==
  LET fullNodeStats == WithStatsObj(sc, fullNodeService).heap[StatsId(sc, fullNodeService)]
  IN /\ Has(fullNodeStats, "blockchainState")
     /\ PartialStatsThrows(fullNodeStats.blockchainState,
                           getRelevantBlockchainState(blockchainState))

\* the onNewBlockchainState handler; nothing is written before the throw
onNewBlockchainState(sc, blockchainState, time) ==
  IF onNewBlockchainStateThrows(sc, blockchainState) THEN sc ELSE
  LET id == StatsId(sc, fullNodeService)
      s0 == WithStatsObj(sc, fullNodeService)
      fullNodeStats == s0.heap[id]
      newBlockchainState == getRelevantBlockchainState(blockchainState)
      blockchainPartialStats ==
        getBlockchainStatePartialStats(fullNodeStats.blockchainState, newBlockchainState)
      partialFullNodeStats ==
        IF Has(fullNodeStats, "blockchainState")
        THEN IF blockchainPartialStats # EmptyObj
             THEN [blockchainState |-> blockchainPartialStats] ELSE EmptyObj
        ELSE [blockchainState |-> newBlockchainState]
      s1 == [s0 EXCEPT !.heap[id] = Put(fullNodeStats, "blockchainState", newBlockchainState)]
  IN setStatsForService(s1, fullNodeService, id, partialFullNodeStats, time)

\* connections.filter(conn => conn.type === type).length
CountType(connections, type) ==
  Cardinality({i \in DOMAIN connections : connections[i] = type})

\* the onConnectionChange handler
onConnectionChange(sc, connections, time) ==
  LET id == StatsId(sc, fullNodeService)
      s0 == WithStatsObj(sc, fullNodeService)
      fullNodeStats == s0.heap[id]
      count == CountType(connections, "fullNode")
      partialFullNodeStats ==
        IF ~Has(fullNodeStats, "fullNodeConnectionsCount")
           \/ fullNodeStats.fullNodeConnectionsCount # count
        THEN [fullNodeConnectionsCount |-> count] ELSE EmptyObj
      s1 == [s0 EXCEPT !.heap[id] = Put(fullNodeStats, "fullNodeConnectionsCount", count)]
  IN setStatsForService(s1, fullNodeService, id, partialFullNodeStats, time)

(* ---------------------------------------------------------------- farmer *)
\* a new_signage_point notice as the daemon reports it
RawSignagePoint(challenge, sp) == [challenge_hash |-> challenge, challenge_chain_sp |-> sp]

\* a new_farming_info notice as the daemon reports it
RawFarmingInfo(challenge, sp, passedFilter, proofs, totalPlots) ==
  [challenge_hash |-> challenge, signage_point |-> sp, passed_filter |-> passedFilter,
   proofs |-> proofs, total_plots |-> totalPlots]

getRelevantSignagePointData(signagePoint, time) ==
  IF signagePoint = Null
  THEN [challenge |-> Undefined, signagePoint |-> Undefined, receivedAt |-> Undefined] ELSE
  [challenge |-> signagePoint.challenge_hash,
   signagePoint |-> signagePoint.challenge_chain_sp,
   receivedAt |-> time]

getRelevantFarmingInfoData(farmingInfo) ==
  [challenge |-> farmingInfo.challenge_hash,
   signagePoint |-> farmingInfo.signage_point,
   passedFilter |-> farmingInfo.passed_filter,
   proofs |-> farmingInfo.proofs,
   totalPlots |-> farmingInfo.total_plots]

\* infos.find(...): the index of the first entry with this challenge and
\* signage point, 0 when there is none
\* a faulty SameKey: the signage point of the entry is compared with the
\* challenge
SameKey_WrongField(farmingInfo, relevant) ==
  farmingInfo.challenge = relevant.challenge /\ farmingInfo.signagePoint = relevant.challenge

SameKey(farmingInfo, relevant) ==
  farmingInfo.challenge = relevant.challenge /\ farmingInfo.signagePoint = relevant.signagePoint

FindFarmingInfo(infos, relevant) ==
  IF \E i \in DOMAIN infos : SameKey(infos[i], relevant)
  THEN CHOOSE i \in DOMAIN infos :
         /\ SameKey(infos[i], relevant)
         /\ \A j \in 1..(i - 1) : ~SameKey(infos[j], relevant)
  ELSE 0

\* Array.prototype.sort with the comparator of sortFarmingInfos: a stable
\* sort, later receivedAt first
RECURSIVE sortFarmingInfos(_)
sortFarmingInfos(infos) ==
  IF infos = <<>> THEN <<>>
  ELSE LET rest == sortFarmingInfos(Tail(infos))
           h == Head(infos)
           k == Cardinality({i \in DOMAIN rest : rest[i].receivedAt > h.receivedAt})
       IN SubSeq(rest, 1, k) \o <<h>> \o SubSeq(rest, k + 1, Len(rest))

\* array.slice(0, n)
Slice(seq, n) == SubSeq(seq, 1, Min(n, Len(seq)))

getFarmingInfosForApi(infos) ==
  [i \in DOMAIN infos |->
     [proofs |-> infos[i].proofs, passedFilter |-> infos[i].passedFilter,
      totalPlots |-> infos[i].totalPlots, receivedAt |-> infos[i].receivedAt,
      lastUpdated |-> infos[i].lastUpdated]]

\* a faulty SignagePointBuffer: an entry the buffer already holds keeps its
\* receivedAt
SignagePointBuffer_KeepsReceivedAt(infos, newSignagePoint, time, oid) ==
  LET relevant == getRelevantSignagePointData(newSignagePoint, time)
      idx == FindFarmingInfo(infos, relevant)
      matchingFarmingInfo ==
        [challenge |-> relevant.challenge, signagePoint |-> relevant.signagePoint,
         receivedAt |-> IF idx = 0 THEN relevant.receivedAt ELSE infos[idx].receivedAt,
         proofs |-> 0, passedFilter |-> 0,
         totalPlots |-> 0, lastUpdated |-> time,
         oid |-> IF idx = 0 THEN oid ELSE infos[idx].oid]
  IN sortFarmingInfos(IF idx = 0 THEN <<matchingFarmingInfo>> \o infos
                      ELSE [infos EXCEPT ![idx] = matchingFarmingInfo])

\* the onNewSignagePoint handler: the new buffer
SignagePointBuffer(infos, newSignagePoint, time, oid) ==
  LET relevant == getRelevantSignagePointData(newSignagePoint, time)
      idx == FindFarmingInfo(infos, relevant)
      matchingFarmingInfo ==
        [challenge |-> relevant.challenge, signagePoint |-> relevant.signagePoint,
         receivedAt |-> relevant.receivedAt, proofs |-> 0, passedFilter |-> 0,
         totalPlots |-> 0, lastUpdated |-> time,
         oid |-> IF idx = 0 THEN oid ELSE infos[idx].oid]
  IN sortFarmingInfos(IF idx = 0 THEN <<matchingFarmingInfo>> \o infos
                      ELSE [infos EXCEPT ![idx] = matchingFarmingInfo])

\* a faulty onNewSignagePoint: the partial is enqueued with setStatsForService
onNewSignagePoint_CallsDispatcher(sc, infos, newSignagePoint, time, oid) ==
  LET id == StatsId(sc, farmerService)
      s0 == WithStatsObj(sc, farmerService)
      forApi == getFarmingInfosForApi(SignagePointBuffer(infos, newSignagePoint, time, oid))
      s1 == [s0 EXCEPT !.heap[id] = Put(s0.heap[id], "farmingInfos", forApi)]
  IN setStatsForService(s1, farmerService, id, [farmingInfos |-> forApi], time)

\* the onNewSignagePoint handler: the stats and the pending partial
onNewSignagePoint(sc, infos, newSignagePoint, time, oid) ==
  LET id == StatsId(sc, farmerService)
      s0 == WithStatsObj(sc, farmerService)
      forApi == getFarmingInfosForApi(SignagePointBuffer(infos, newSignagePoint, time, oid))
      s1 == [s0 EXCEPT !.heap[id] = Put(s0.heap[id], "farmingInfos", forApi)]
  IN setStatsForServiceWithoutUpdate(NoteOther(s1), farmerService, id,
                                     [farmingInfos |-> forApi])

\* a faulty FarmingInfoAccumulated: the counters of the notice replace those
\* of the entry
FarmingInfoAccumulated_Overwrites(infos, newFarmingInfo, time, oid) ==
  LET relevant == getRelevantFarmingInfoData(newFarmingInfo)
      found == FindFarmingInfo(infos, relevant)
      created == [challenge |-> relevant.challenge, signagePoint |-> relevant.signagePoint,
                  receivedAt |-> time, proofs |-> 0, passedFilter |-> 0, totalPlots |-> 0,
                  lastUpdated |-> time, oid |-> oid]
      list == IF found = 0 THEN <<created>> \o infos ELSE infos
      idx == IF found = 0 THEN 1 ELSE found
  IN [isNewlyCreated |-> found = 0,
      idx |-> idx,
      list |-> [list EXCEPT ![idx].proofs = relevant.proofs,
                            ![idx].passedFilter = relevant.passedFilter,
                            ![idx].totalPlots = relevant.totalPlots,
                            ![idx].lastUpdated = time]]

\* the onNewFarmingInfo handler: the buffer before it is cut, with the index
\* of the entry of the notice
FarmingInfoAccumulated(infos, newFarmingInfo, time, oid) ==
  LET relevant == getRelevantFarmingInfoData(newFarmingInfo)
      found == FindFarmingInfo(infos, relevant)
      created == [challenge |-> relevant.challenge, signagePoint |-> relevant.signagePoint,
                  receivedAt |-> time, proofs |-> 0, passedFilter |-> 0, totalPlots |-> 0,
                  lastUpdated |-> time, oid |-> oid]
      list == IF found = 0 THEN <<created>> \o infos ELSE infos
      idx == IF found = 0 THEN 1 ELSE found
  IN [isNewlyCreated |-> found = 0,
      idx |-> idx,
      list |-> [list EXCEPT ![idx].proofs = @ + relevant.proofs,
                            ![idx].passedFilter = @ + relevant.passedFilter,
                            ![idx].totalPlots = @ + relevant.totalPlots,
                            ![idx].lastUpdated = time]]

\* the onNewFarmingInfo handler: the new buffer
FarmingInfoBuffer(infos, newFarmingInfo, time, oid) ==
  sortFarmingInfos(Slice(FarmingInfoAccumulated(infos, newFarmingInfo, time, oid).list,
                         maximumFarmingInfos))

\* a faulty ResponseTimes: a sample is recorded for a newly created entry as
\* well
ResponseTimes_AlsoOnCreate(times, infos, newFarmingInfo, time, oid) ==
  LET acc == FarmingInfoAccumulated(infos, newFarmingInfo, time, oid)
  IN Slice(<<time - acc.list[acc.idx].receivedAt>> \o times, responseTimeSampleSize)

\* the onNewFarmingInfo handler: the new window of response times
ResponseTimes(times, infos, newFarmingInfo, time, oid) ==
  LET acc == FarmingInfoAccumulated(infos, newFarmingInfo, time, oid)
  IN Slice(IF ~acc.isNewlyCreated
           THEN <<time - acc.list[acc.idx].receivedAt>> \o times ELSE times,
           responseTimeSampleSize)

RECURSIVE Sum(_)
Sum(seq) == IF seq = <<>> THEN 0 ELSE Head(seq) + Sum(Tail(seq))

RECURSIVE Gcd(_, _)
Gcd(a, b) == IF b = 0 THEN a ELSE Gcd(b, a % b)
Abs(a) == IF a < 0 THEN -a ELSE a

\* a quotient as the pair <<numerator, denominator>> in lowest terms
Quotient(a, b) == LET g == Gcd(Abs(a), b) IN <<a \div g, b \div g>>

\* times.reduce((acc, curr) => acc.plus(curr), 0).dividedBy(times.length)
averageResponseTime(times) ==
  IF Len(times) > 0 THEN Quotient(Sum(times), Len(times)) ELSE Null

\* times.reduce((acc, curr) => acc.isGreaterThan(curr) ? acc : curr, 0)
RECURSIVE Greatest(_, _)
Greatest(acc, seq) ==
  IF seq = <<>> THEN acc
  ELSE Greatest(IF acc > Head(seq) THEN acc ELSE Head(seq), Tail(seq))
worstResponseTime(times) ==
  IF Len(times) > 0 THEN Num(Greatest(0, times)) ELSE Null

\* the onNewFarmingInfo handler: the stats and the dispatcher
onNewFarmingInfo(sc, infos, times, newFarmingInfo, time, oid) ==
  LET id == StatsId(sc, farmerService)
      s0 == WithStatsObj(sc, farmerService)
      newTimes == ResponseTimes(times, infos, newFarmingInfo, time, oid)
      forApi == getFarmingInfosForApi(FarmingInfoBuffer(infos, newFarmingInfo, time, oid))
      farmerStats ==
        Put(Put(Put(s0.heap[id],
          "averageHarvesterResponseTime", averageResponseTime(newTimes)),
          "worstHarvesterResponseTime", worstResponseTime(newTimes)),
          "farmingInfos", forApi)
      s1 == [s0 EXCEPT !.heap[id] = farmerStats]
  IN setStatsForService(s1, farmerService, id, farmerStats, time)

(* --------------------------------------------------------------- plotter *)
plotterStates == [RUNNING |-> "RUNNING", FINISHED |-> "FINISHED", SUBMITTED |-> "SUBMITTED"]

\* a job of the plotting queue as the daemon reports it; a text is a
\* sequence of lines, <<>> is the empty text or no text at all (both falsy)
RawJob(id, deleted, state, size, log, logNew) ==
  [id |-> id, deleted |-> deleted, state |-> state, size |-> size, log |-> log,
   log_new |-> logNew]

\* updateStartedAtOfJob({existingJob, job}) of lib/util: startedAt is set
\* when the job turns to RUNNING and has no startedAt yet
updateStartedAtOfJob(existingJob, job, time) ==
  IF job.state = plotterStates.RUNNING /\ ~Has(existingJob, "startedAt")
  THEN Put(existingJob, "startedAt", time) ELSE existingJob

\* getProgressOfJob({job, log}) of lib/util: the lines of the log out of the
\* lines a plot of this size writes, in quarters
LinesOfPlot(size) == size - 30
getProgressOfJob(job, log) == (4 * Min(Len(log), LinesOfPlot(job.size))) \div LinesOfPlot(job.size)

\* jobs.find(curr => curr.id === job.id): the index, 0 when there is none
FindJob(jobs, id) ==
  IF \E i \in DOMAIN jobs : jobs[i].id = id
  THEN CHOOSE i \in DOMAIN jobs : jobs[i].id = id /\ \A j \in 1..(i - 1) : jobs[j].id # id
  ELSE 0

\* jobLogs.get(id) || ''
LogOf(logs, id) == IF Has(logs, id) THEN logs[id] ELSE <<>>

\* a faulty RemoveJob: the log of the job is kept
RemoveJob_KeepsLog(st, id) ==
  [st EXCEPT !.jobs = SelectSeq(st.jobs, LAMBDA curr : curr.id # id), !.updated = TRUE]

\* the branch of queue.forEach for a job that is deleted or finished
RemoveJob(st, id) ==
  [st EXCEPT !.jobs = SelectSeq(st.jobs, LAMBDA curr : curr.id # id),
             !.jobLogs = [i \in DOMAIN st.jobLogs \ {id} |-> st.jobLogs[i]],
             !.updated = TRUE]

\* the body of queue.forEach for one job; st holds the jobs array, the log
\* map and the two flags
PlotterJobStep(st, job, time) ==
  IF job.deleted \/ job.state = plotterStates.FINISHED
  THEN RemoveJob(st, job.id)
  ELSE LET idx == FindJob(st.jobs, job.id)
           e0 == IF idx = 0 THEN [id |-> job.id] ELSE st.jobs[idx]
           stateDiffers == ~Has(e0, "state") \/ e0.state # job.state
           e1 == IF stateDiffers
                 THEN Put(updateStartedAtOfJob(e0, job, time), "state", job.state) ELSE e0
           sizeDiffers == ~Has(e1, "kSize") \/ e1.kSize # job.size
           e2 == IF sizeDiffers THEN Put(e1, "kSize", job.size) ELSE e1
           logs == IF job.log # <<>> THEN Put(st.jobLogs, job.id, job.log)
                   ELSE IF job.log_new # <<>>
                     THEN Put(st.jobLogs, job.id, LogOf(st.jobLogs, job.id) \o job.log_new)
                   ELSE st.jobLogs
           progress == getProgressOfJob(job, LogOf(logs, job.id))
           progressDiffers == ~Has(e2, "progress") \/ e2.progress # progress
           e3 == IF progressDiffers THEN Put(e2, "progress", progress) ELSE e2
       IN [jobs |-> IF idx = 0 THEN Append(st.jobs, e3) ELSE [st.jobs EXCEPT ![idx] = e3],
           jobLogs |-> logs,
           updated |-> st.updated \/ idx = 0 \/ stateDiffers \/ sizeDiffers \/ progressDiffers,
           jobsArrayNeedsSort |-> st.jobsArrayNeedsSort \/ idx = 0 \/ stateDiffers]

RECURSIVE PlotterForEach(_, _, _)
PlotterForEach(st, queue, time) ==
  IF queue = <<>> THEN st
  ELSE PlotterForEach(PlotterJobStep(st, Head(queue), time), Tail(queue), time)

\* a faulty compareJobs: of two running jobs the one with less progress
\* comes first
compareJobs_Ascending(a, b) ==
  IF a.state = plotterStates.RUNNING /\ b.state # plotterStates.RUNNING THEN -1
  ELSE IF a.state # plotterStates.RUNNING /\ b.state = plotterStates.RUNNING THEN 1
  ELSE IF a.state = plotterStates.RUNNING /\ b.state = plotterStates.RUNNING
    THEN IF a.progress > b.progress THEN 1 ELSE -1
  ELSE 0

\* the comparator handed to jobs.sort
compareJobs(a, b) ==
  IF a.state = plotterStates.RUNNING /\ b.state # plotterStates.RUNNING THEN -1
  ELSE IF a.state # plotterStates.RUNNING /\ b.state = plotterStates.RUNNING THEN 1
  ELSE IF a.state = plotterStates.RUNNING /\ b.state = plotterStates.RUNNING
    THEN IF a.progress > b.progress THEN -1 ELSE 1
  ELSE 0

\* Array.prototype.sort with compareJobs, as the engine sorts a short array:
\* each job is inserted behind the jobs it is not smaller than
RECURSIVE InsertJob(_, _)
InsertJob(sorted, job) ==
  IF sorted = <<>> THEN <<job>>
  ELSE IF compareJobs(job, sorted[Len(sorted)]) < 0
    THEN Append(InsertJob(SubSeq(sorted, 1, Len(sorted) - 1), job), sorted[Len(sorted)])
  ELSE Append(sorted, job)

RECURSIVE sortJobs(_)
sortJobs(jobs) ==
  IF jobs = <<>> THEN <<>>
  ELSE InsertJob(sortJobs(SubSeq(jobs, 1, Len(jobs) - 1)), jobs[Len(jobs)])

\* the handler up to the call of setStatsForService: the jobs array, the log
\* map and whether anything was updated
PlotterQueueResult(jobs, logs, queue, time) ==
  LET st == PlotterForEach([jobs |-> jobs, jobLogs |-> logs, updated |-> FALSE,
                            jobsArrayNeedsSort |-> FALSE], queue, time)
  IN [st EXCEPT !.jobs = IF st.jobsArrayNeedsSort THEN sortJobs(@) ELSE @]

\* the onNewPlottingQueueStats handler for a queue that is not null
onNewPlottingQueueStats(sc, logs, queue, time) ==
  LET id == StatsId(sc, plotterService)
      s0 == WithStatsObj(sc, plotterService)
      plotterStats == s0.heap[id]
      res == PlotterQueueResult(IF Has(plotterStats, "jobs") THEN plotterStats.jobs ELSE <<>>,
                                logs, queue, time)
      s1 == [s0 EXCEPT !.heap[id] = Put(plotterStats, "jobs", res.jobs)]
  IN IF res.updated THEN setStatsForService(s1, plotterService, id, s1.heap[id], time)
     ELSE s1

(* ------------------------------------------------------------------ init *)
\* a faulty isServiceEnabled: every service counts as enabled
isServiceEnabled_Always(service) == service \in Services

isServiceEnabled(service) == service \in enabledServices

\* the excludedServices loop of init(): each excluded service leaves
\* enabledServices and its stats are deleted, in the order of the configuration
RECURSIVE ExcludeAll(_, _, _)
ExcludeAll(sc, excluded, time) ==
  IF excluded = <<>> THEN sc
  ELSE ExcludeAll(deleteStatsForService(sc, Head(excluded), time), Tail(excluded), time)

SelectSeq2(seq, set) == SelectSeq(seq, LAMBDA s : s \in set)
Range(seq) == {seq[i] : i \in DOMAIN seq}

ConstructorFields ==
  /\ phase = "constructed"
  /\ now = 0
  /\ heap = [id \in 1..MaxObj |-> EmptyObj]
  /\ stats = [s \in Services |-> CHOOSE i \in DOMAIN allServices : allServices[i] = s]
  /\ partialStats = [s \in {plotterService} |-> Tombstone]
  /\ throttle = [timer |-> FALSE, fireAt |-> 0, lastArgs |-> FALSE, called |-> FALSE,
                 lastCallTime |-> 0, lastInvokeTime |-> 0]
  /\ inflight = <<>>
  /\ view = EmptyObj
  /\ enabledServices = Services
  /\ isServiceRunning = [s \in Services |-> FALSE]
  /\ walletIsLoggedIn = FALSE
  /\ farmingInfos = <<>>
  /\ harvesterResponseTimes = <<>>
  /\ tasks = <<>>
  /\ burst = NoBurst
  /\ enqueued = [s \in Services |-> EmptyObj]
  /\ events = 0
  /\ notices = <<>>
  /\ jobLogs = EmptyObj
  /\ boot = [pc |-> 0, loop |-> "top", inProgress |-> 0, failures |-> 0, timers |-> {},
             trace |-> <<>>]
  /\ notifications = <<>>

ConstructorState ==
  /\ ConstructorFields
  /\ last = [op |-> "constructor"]

\* init() up to the registration of the push handlers
InitConfig ==
  /\ phase = "constructed"
  /\ phase' = "running"
  /\ enabledServices' = Services \ Range(config.excludedServices)
  /\ Commit(ExcludeAll(SC, SelectSeq2(config.excludedServices, Services), now))
  /\ last' = [op |-> "init"]
  /\ UNCHANGED <<aux, config, now, isServiceRunning, walletIsLoggedIn, farmingInfos,
                 harvesterResponseTimes, notices, events>>

(* --------------------------------------------------------------- actions *)
\* the transport is not handed more than MaxInflight payloads at a time
Fits(sc) == Len(sc.inflight) <= MaxInflight
Running == phase = "running"
MayHandle == Running /\ events < MaxEvents /\ CanAlloc(SC)

Tick ==
  /\ now < MaxTime
  /\ now' = now + 1
  /\ last' = [op |-> "tick"]
  /\ UNCHANGED <<aux, config, phase, heap, stats, partialStats, throttle, inflight, view, enabledServices,
                 isServiceRunning, walletIsLoggedIn, farmingInfos, harvesterResponseTimes, notices,
                 tasks, burst, enqueued, events>>

\* what a step leaves in `last` about the dispatcher: whether a window was
\* open before it and the payloads it handed to the transport
Dispatch(sc) == [midWindow |-> throttle.timer, out |-> sc.out]

\* the timer of the throttle fires (not before its time, possibly later)
TimerExpired ==
  /\ throttle.timer /\ now >= throttle.fireAt
  /\ LET sc == timerExpired(SC, now)
     IN /\ Fits(sc)
        /\ Commit([sc EXCEPT !.burst = IF sc.throttle.timer THEN @ ELSE NoBurst])
        /\ last' = [op |-> "timerExpired", burst |-> sc.burst, d |-> Dispatch(sc),
                    snapshot |-> [s \in {x \in Services : stats[x] # 0} |-> heap[stats[s]]]]
  /\ UNCHANGED <<aux, config, phase, now, enabledServices, isServiceRunning, walletIsLoggedIn,
                 farmingInfos, harvesterResponseTimes, notices, events>>

\* the transport settles a transmission
TransportDone ==
  /\ \E i \in DOMAIN inflight :
       Commit([SC EXCEPT !.inflight = SubSeq(inflight, 1, i - 1) \o SubSeq(inflight, i + 1, Len(inflight))])
  /\ last' = [op |-> "transportDone"]
  /\ UNCHANGED <<aux, config, phase, now, enabledServices, isServiceRunning, walletIsLoggedIn,
                 farmingInfos, harvesterResponseTimes, notices, events>>

RawBlockchainStates ==
  { RawBlockchainState(1, 0, FALSE, TRUE, 2, 1),
    RawBlockchainState(2, BytesPerGib, TRUE, FALSE, 0, 2) }

NewBlockchainState ==
  /\ MayHandle /\ isServiceEnabled(fullNodeService)
  /\ \E blockchainState \in RawBlockchainStates :
       LET sc == onNewBlockchainState(SC, blockchainState, now)
       IN /\ Fits(sc)
          /\ Commit(sc)
          /\ last' = [op |-> "onNewBlockchainState", d |-> Dispatch(sc),
                      thrown |-> onNewBlockchainStateThrows(SC, blockchainState)]
  /\ events' = events + 1
  /\ UNCHANGED <<aux, config, phase, now, enabledServices, isServiceRunning, walletIsLoggedIn,
                 farmingInfos, harvesterResponseTimes, notices>>

\* a new_blockchain_state notice without payload
NewBlockchainStateNull ==
  /\ MayHandle /\ isServiceEnabled(fullNodeService)
  /\ LET sc == onNewBlockchainState(SC, Null, now)
     IN /\ Fits(sc)
        /\ Commit(sc)
        /\ last' = [op |-> "onNewBlockchainStateNull", d |-> Dispatch(sc),
                    thrown |-> onNewBlockchainStateThrows(SC, Null)]
  /\ events' = events + 1
  /\ UNCHANGED <<aux, config, phase, now, enabledServices, isServiceRunning, walletIsLoggedIn,
                 farmingInfos, harvesterResponseTimes, notices>>

ConnectionLists == { <<"farmer">>, <<"fullNode", "farmer">> }

ConnectionChange ==
  /\ MayHandle /\ isServiceEnabled(fullNodeService)
  /\ \E connections \in ConnectionLists :
       LET sc == onConnectionChange(SC, connections, now)
       IN /\ Fits(sc)
          /\ Commit(sc)
          /\ last' = [op |-> "onConnectionChange", d |-> Dispatch(sc)]
  /\ events' = events + 1
  /\ UNCHANGED <<aux, config, phase, now, enabledServices, isServiceRunning, walletIsLoggedIn,
                 farmingInfos, harvesterResponseTimes, notices>>

(* ----------------------------------------------------- farmer events *)
FarmerKeys == {<<1, 1>>, <<1, 2>>}
RawSignagePoints == {RawSignagePoint(k[1], k[2]) : k \in FarmerKeys}
RawFarmingInfos ==
  {RawFarmingInfo(k[1], k[2], 1, 0, 2) : k \in FarmerKeys}
    \cup {RawFarmingInfo(k[1], k[2], 2, 1, 3) : k \in FarmerKeys}

\* the entry the buffer holds for a key, as <<entry>>, or <<>>
EntryOf(infos, challenge, sp) ==
  LET idx == FindFarmingInfo(infos, [challenge |-> challenge, signagePoint |-> sp])
  IN IF idx = 0 THEN <<>> ELSE <<infos[idx]>>

\* history: the counters the buffer holds for a key, zeros when it holds none
Counters(e) == [proofs |-> e.proofs, passedFilter |-> e.passedFilter, totalPlots |-> e.totalPlots]
Held(infos, challenge, sp) ==
  IF EntryOf(infos, challenge, sp) = <<>>
  THEN [proofs |-> 0, passedFilter |-> 0, totalPlots |-> 0]
  ELSE Counters(EntryOf(infos, challenge, sp)[1])

\* the entries of arr that are objects of list, as list holds them now
Refreshed(arr, list) ==
  [i \in DOMAIN arr |->
     IF \E j \in DOMAIN list : list[j].oid = arr[i].oid
     THEN list[CHOOSE j \in DOMAIN list : list[j].oid = arr[i].oid]
     ELSE arr[i]]

\* the array a suspended updateFarmerStats holds in its local farmingInfos
\* after a handler has worked on this.farmingInfos: list is the array the
\* handler changed in place, replaced says that this.farmingInfos is another
\* array afterwards
CapturedAfter(ts, list, replaced) ==
  [i \in DOMAIN ts |->
     IF ts[i].kind # "updateFarmerStats" THEN ts[i]
     ELSE [ts[i] EXCEPT !.loc =
             IF @.same THEN [farmingInfos |-> list, same |-> ~replaced]
             ELSE [farmingInfos |-> Refreshed(@.farmingInfos, list), same |-> FALSE]]]

NewSignagePoint ==
  /\ MayHandle /\ isServiceEnabled(farmerService)
  /\ \E newSignagePoint \in RawSignagePoints :
       LET sc == onNewSignagePoint(SC, farmingInfos, newSignagePoint, now, events + 1)
           buffer == SignagePointBuffer(farmingInfos, newSignagePoint, now, events + 1)
       IN /\ Commit([sc EXCEPT !.tasks = CapturedAfter(@, buffer, FALSE)])
          /\ farmingInfos' = buffer
          /\ notices' = Append(notices, [kind |-> "signagePoint",
                                         challenge |-> newSignagePoint.challenge_hash,
                                         sp |-> newSignagePoint.challenge_chain_sp,
                                         proofs |-> 0, passedFilter |-> 0, totalPlots |-> 0,
                                         held |-> Held(farmingInfos, newSignagePoint.challenge_hash,
                                                       newSignagePoint.challenge_chain_sp)])
          /\ last' = [op |-> "onNewSignagePoint", d |-> Dispatch(sc),
                      challenge |-> newSignagePoint.challenge_hash,
                      sp |-> newSignagePoint.challenge_chain_sp,
                      before |-> EntryOf(farmingInfos, newSignagePoint.challenge_hash,
                                         newSignagePoint.challenge_chain_sp),
                      lenBefore |-> Len(farmingInfos)]
  /\ events' = events + 1
  /\ UNCHANGED <<aux, config, phase, now, enabledServices, isServiceRunning, walletIsLoggedIn,
                 harvesterResponseTimes>>

NewFarmingInfo ==
  /\ MayHandle /\ isServiceEnabled(farmerService)
  /\ \E newFarmingInfo \in RawFarmingInfos :
       LET sc == onNewFarmingInfo(SC, farmingInfos, harvesterResponseTimes, newFarmingInfo,
                                  now, events + 1)
           acc == FarmingInfoAccumulated(farmingInfos, newFarmingInfo, now, events + 1)
       IN /\ Fits(sc)
          /\ Commit([sc EXCEPT !.tasks = CapturedAfter(@, acc.list, TRUE)])
          /\ farmingInfos' = FarmingInfoBuffer(farmingInfos, newFarmingInfo, now, events + 1)
          /\ harvesterResponseTimes' =
               ResponseTimes(harvesterResponseTimes, farmingInfos, newFarmingInfo, now, events + 1)
          /\ notices' = Append(notices, [kind |-> "farmingInfo",
                                         challenge |-> newFarmingInfo.challenge_hash,
                                         sp |-> newFarmingInfo.signage_point,
                                         proofs |-> newFarmingInfo.proofs,
                                         passedFilter |-> newFarmingInfo.passed_filter,
                                         totalPlots |-> newFarmingInfo.total_plots,
                                         held |-> Held(farmingInfos, newFarmingInfo.challenge_hash,
                                                       newFarmingInfo.signage_point)])
          /\ last' = [op |-> "onNewFarmingInfo", d |-> Dispatch(sc),
                      challenge |-> newFarmingInfo.challenge_hash,
                      sp |-> newFarmingInfo.signage_point,
                      before |-> EntryOf(farmingInfos, newFarmingInfo.challenge_hash,
                                         newFarmingInfo.signage_point),
                      lenBefore |-> Len(farmingInfos),
                      timesBefore |-> harvesterResponseTimes]
  /\ events' = events + 1
  /\ UNCHANGED <<aux, config, phase, now, enabledServices, isServiceRunning, walletIsLoggedIn>>

\* a new_signage_point notice without payload
NewSignagePointNull ==
  /\ MayHandle /\ isServiceEnabled(farmerService)
  /\ LET sc == onNewSignagePoint(SC, farmingInfos, Null, now, events + 1)
         buffer == SignagePointBuffer(farmingInfos, Null, now, events + 1)
     IN /\ Commit([sc EXCEPT !.tasks = CapturedAfter(@, buffer, FALSE)])
        /\ farmingInfos' = buffer
        /\ last' = [op |-> "onNewSignagePointNull", d |-> Dispatch(sc), thrown |-> FALSE,
                    lenBefore |-> Len(farmingInfos)]
  /\ events' = events + 1
  /\ UNCHANGED <<aux, config, phase, now, enabledServices, isServiceRunning, walletIsLoggedIn,
                 harvesterResponseTimes, notices>>

\* a new_farming_info notice without payload: the handler returns at once
NewFarmingInfoNull ==
  /\ MayHandle /\ isServiceEnabled(farmerService)
  /\ events' = events + 1
  /\ last' = [op |-> "onNewFarmingInfoNull"]
  /\ UNCHANGED <<aux, config, phase, now, heap, stats, partialStats, throttle, inflight, view,
                 enabledServices, isServiceRunning, walletIsLoggedIn, farmingInfos,
                 harvesterResponseTimes, notices, tasks, burst,
                 enqueued>>

(* ------------------------------------------------------- plotter events *)
\* what the daemon reports for a job: deleted, finished, submitted, running
\* with more log text, running with a new log text, running with another size
Deleted(id) == RawJob(id, TRUE, plotterStates.RUNNING, 32, <<>>, <<>>)
Finished(id) == RawJob(id, FALSE, plotterStates.FINISHED, 32, <<>>, <<>>)
Submitted(id) == RawJob(id, FALSE, plotterStates.SUBMITTED, 32, <<>>, <<>>)
Plotting(id) == RawJob(id, FALSE, plotterStates.RUNNING, 32, <<>>, <<1>>)
Restarted(id) == RawJob(id, FALSE, plotterStates.RUNNING, 32, <<1, 1>>, <<>>)
Resized(id) == RawJob(id, FALSE, plotterStates.RUNNING, 33, <<>>, <<>>)

\* the queues of the daemon: every job id at most once
PlottingQueues ==
  { <<>>, <<Deleted(1)>>, <<Finished(1)>>, <<Submitted(1)>>, <<Plotting(1)>>, <<Restarted(1)>>,
    <<Resized(1)>>, <<Submitted(2)>>, <<Plotting(2)>>,
    <<Plotting(1), Plotting(2)>>, <<Submitted(1), Plotting(2)>>, <<Finished(2), Deleted(1)>> }

\* the jobs array of the plotter's stats, <<>> when there is none
JobsTable == IF stats[plotterService] # 0 /\ Has(heap[stats[plotterService]], "jobs")
             THEN heap[stats[plotterService]].jobs ELSE <<>>

NewPlottingQueueStats ==
  /\ MayHandle /\ isServiceEnabled(plotterService)
  /\ \E queue \in PlottingQueues :
       LET sc == onNewPlottingQueueStats(SC, jobLogs, queue, now)
           res == PlotterQueueResult(JobsTable, jobLogs, queue, now)
       IN /\ Fits(sc)
          /\ Commit(sc)
          /\ jobLogs' = res.jobLogs
          /\ last' = [op |-> "onNewPlottingQueueStats", d |-> Dispatch(sc), queue |-> queue,
                      jobsBefore |-> JobsTable, updated |-> res.updated]
  /\ events' = events + 1
  /\ UNCHANGED <<boot, notifications, config, phase, now, enabledServices, isServiceRunning,
                 walletIsLoggedIn, farmingInfos, harvesterResponseTimes, notices>>

\* a plotting-queue event without payload: the handler returns at once
NewPlottingQueueStatsNull ==
  /\ MayHandle /\ isServiceEnabled(plotterService)
  /\ events' = events + 1
  /\ last' = [op |-> "onNewPlottingQueueStats", queue |-> Null, null |-> TRUE]
  /\ UNCHANGED <<aux, config, phase, now, heap, stats, partialStats, throttle, inflight, view,
                 enabledServices, isServiceRunning, walletIsLoggedIn, farmingInfos,
                 harvesterResponseTimes, notices, tasks, burst, enqueued>>

(* --------------------------------------------------- running services *)
Task(kind, pc, service, obj, partial, loc) ==
  [kind |-> kind, pc |-> pc, service |-> service, obj |-> obj, partial |-> partial, loc |-> loc]

RemoveAt(seq, i) == SubSeq(seq, 1, i - 1) \o SubSeq(seq, i + 1, Len(seq))

\* updateRunningServices(): one probe per enabled service except the plotter,
\* all started before the first answer arrives
UpdateRunningServices ==
  /\ Running /\ events < MaxEvents
  /\ LET probed == SelectSeq2(allServices, enabledServices \ {plotterService})
     IN /\ Len(tasks) + Len(probed) <= MaxTasks
        /\ tasks' = tasks \o [i \in DOMAIN probed |->
                             Task("detect", "isServiceRunning", probed[i], 0, EmptyObj, EmptyObj)]
  /\ events' = events + 1
  /\ last' = [op |-> "updateRunningServices"]
  /\ UNCHANGED <<aux, config, phase, now, heap, stats, partialStats, throttle, inflight, view,
                 enabledServices, isServiceRunning, walletIsLoggedIn, farmingInfos,
                 harvesterResponseTimes, notices, burst, enqueued>>

\* the end of one probe: the result is recorded and the stats of a service
\* that is not running are deleted
DetectFinish(i, isRunning) ==
  LET service == tasks[i].service
      s0 == [SC EXCEPT !.tasks = RemoveAt(tasks, i)]
      sc == IF ~isRunning /\ stats[service] # 0
            THEN deleteStatsForService(s0, service, now) ELSE s0
  IN /\ Fits(sc)
     /\ isServiceRunning' = [isServiceRunning EXCEPT ![service] = isRunning]
     /\ Commit(sc)
     /\ last' = [op |-> "detect", service |-> service, isRunning |-> isRunning,
                 had |-> stats[service] # 0,
                 d |-> Dispatch(sc)]

\* daemonApiClient.isServiceRunning answers
DetectIsRunning ==
  /\ \E i \in DOMAIN tasks, isRunning \in BOOLEAN :
       /\ tasks[i].kind = "detect" /\ tasks[i].pc = "isServiceRunning"
       /\ IF isRunning /\ tasks[i].service = walletService /\ ~walletIsLoggedIn
          THEN /\ tasks' = [tasks EXCEPT ![i].pc = "getPublicKeys"]
               /\ last' = [op |-> "await"]
               /\ UNCHANGED <<heap, stats, partialStats, throttle, inflight, view, burst, enqueued,
                              isServiceRunning>>
          ELSE DetectFinish(i, isRunning)
  /\ UNCHANGED <<aux, config, phase, now, enabledServices, walletIsLoggedIn, farmingInfos,
                 harvesterResponseTimes, notices, events>>

\* a faulty DetectPublicKeys: with keys the wallet is recorded as running
\* without ensureWalletIsLoggedIn
DetectPublicKeys_NoLogin ==
  /\ \E i \in DOMAIN tasks, publicKeys \in 0..1 :
       /\ tasks[i].kind = "detect" /\ tasks[i].pc = "getPublicKeys"
       /\ DetectFinish(i, publicKeys # 0)
  /\ UNCHANGED <<aux, config, phase, now, enabledServices, walletIsLoggedIn, farmingInfos,
                 harvesterResponseTimes, notices, events>>

\* walletApiClient.getPublicKeys answers: without keys the wallet counts as
\* not running, otherwise ensureWalletIsLoggedIn starts
DetectPublicKeys ==
  /\ \E i \in DOMAIN tasks, publicKeys \in 0..1 :
       /\ tasks[i].kind = "detect" /\ tasks[i].pc = "getPublicKeys"
       /\ IF publicKeys = 0 THEN DetectFinish(i, FALSE)
          ELSE IF walletIsLoggedIn THEN DetectFinish(i, TRUE)
          ELSE /\ tasks' = [tasks EXCEPT ![i].pc = "getPublicKey"]
               /\ last' = [op |-> "await"]
               /\ UNCHANGED <<heap, stats, partialStats, throttle, inflight, view, burst, enqueued,
                              isServiceRunning>>
  /\ UNCHANGED <<aux, config, phase, now, enabledServices, walletIsLoggedIn, farmingInfos,
                 harvesterResponseTimes, notices, events>>

\* ensureWalletIsLoggedIn: getPublicKey answers and logInAndSkip is called
DetectGetPublicKey ==
  /\ \E i \in DOMAIN tasks :
       /\ tasks[i].kind = "detect" /\ tasks[i].pc = "getPublicKey"
       /\ tasks' = [tasks EXCEPT ![i].pc = "logInAndSkip"]
  /\ last' = [op |-> "await"]
  /\ UNCHANGED <<aux, config, phase, now, heap, stats, partialStats, throttle, inflight, view,
                 enabledServices, isServiceRunning, walletIsLoggedIn, farmingInfos,
                 harvesterResponseTimes, notices, burst, enqueued, events>>

\* ensureWalletIsLoggedIn: logInAndSkip answers
DetectLoggedIn ==
  /\ \E i \in DOMAIN tasks :
       /\ tasks[i].kind = "detect" /\ tasks[i].pc = "logInAndSkip"
       /\ walletIsLoggedIn' = TRUE
       /\ DetectFinish(i, TRUE)
  /\ UNCHANGED <<aux, config, phase, now, enabledServices, farmingInfos,
                 harvesterResponseTimes, notices, events>>

\* an awaited call of a suspended handler rejects: the handler ends there
TaskFails ==
  /\ \E i \in DOMAIN tasks : Commit([SC EXCEPT !.tasks = RemoveAt(tasks, i)])
  /\ last' = [op |-> "taskFails"]
  /\ UNCHANGED <<aux, config, phase, now, enabledServices, isServiceRunning, walletIsLoggedIn,
                 farmingInfos, harvesterResponseTimes, notices, events>>

(* ----------------------------------------------------------------- polls *)
\* what the steps of the polls leave alone
PollFrame == <<aux, config, phase, now, enabledServices, isServiceRunning, walletIsLoggedIn,
               farmingInfos, harvesterResponseTimes, notices, events>>

\* ChiaAmount.fromRaw(raw).toString(): the decimal string of the amount, one
\* string for each amount
ChiaAmountString(raw) == [mojo |-> raw]

doWalletsDiffer(wallets, newWallets) ==
  IF Len(wallets) # Len(newWallets) THEN TRUE
  ELSE \E index \in DOMAIN newWallets :
         \/ wallets[index].id # newWallets[index].id
         \/ wallets[index].name # newWallets[index].name
         \/ wallets[index].type # newWallets[index].type
         \/ wallets[index].balance.unconfirmed # newWallets[index].balance.unconfirmed

\* updateWalletStats up to its first await
updateWalletStatsBegin(sc) ==
  IF ~isServiceRunning[walletService] THEN sc
  ELSE [WithStatsObj(sc, walletService) EXCEPT
          !.tasks = Append(@, Task("updateWalletStats", "getWallets", walletService,
                                   StatsId(sc, walletService), EmptyObj, EmptyObj))]

\* getWallets has answered
walletGotWallets(sc, i, wallets) ==
  [sc EXCEPT !.tasks[i].pc = "getBalance", !.tasks[i].loc = [wallets |-> wallets]]

\* every getBalance has answered
walletGotBalances(sc, i, balances) ==
  LET t == sc.tasks[i]
      walletStats == sc.heap[t.obj]
      newWallets == [j \in DOMAIN t.loc.wallets |->
                       [id |-> t.loc.wallets[j].id, name |-> t.loc.wallets[j].name,
                        type |-> t.loc.wallets[j].type,
                        balance |-> [unconfirmed |-> ChiaAmountString(balances[j])]]]
      walletPartialStats ==
        IF ~Has(walletStats, "wallets") \/ doWalletsDiffer(walletStats.wallets, newWallets)
        THEN [wallets |-> newWallets] ELSE EmptyObj
  IN [sc EXCEPT !.heap[t.obj] = Put(walletStats, "wallets", newWallets),
                !.tasks[i].pc = "getWalletSyncStatus",
                !.tasks[i].partial = walletPartialStats]

\* getWalletSyncStatus has answered
walletGotSyncStatus(sc, i, syncStatus) ==
  [sc EXCEPT !.tasks[i].pc = "getWalletSyncedHeight",
             !.tasks[i].loc = Put(@, "syncStatus", syncStatus)]

\* getWalletSyncedHeight has answered
walletGotSyncedHeight(sc, i, syncedHeight) ==
  LET t == sc.tasks[i]
      walletStats == sc.heap[t.obj]
      newSyncStatus == [synced |-> t.loc.syncStatus.synced, syncing |-> t.loc.syncStatus.syncing,
                        syncedHeight |-> syncedHeight]
      changed == ChangedFields(walletStats.syncStatus, newSyncStatus,
                               {"synced", "syncing", "syncedHeight"})
      walletPartialStats ==
        IF ~Has(walletStats, "syncStatus") THEN Put(t.partial, "syncStatus", newSyncStatus)
        ELSE IF changed # EmptyObj THEN Put(t.partial, "syncStatus", changed)
        ELSE t.partial
  IN [sc EXCEPT !.heap[t.obj] = Put(walletStats, "syncStatus", newSyncStatus),
                !.tasks[i].pc = "getFarmedAmount",
                !.tasks[i].partial = walletPartialStats]

\* getFarmedAmount has answered
walletGotFarmedAmount(sc, i, farmedAmountResponse) ==
  LET t == sc.tasks[i]
      walletStats == sc.heap[t.obj]
      farmedAmount == [lastHeightFarmed |-> farmedAmountResponse.last_height_farmed]
      walletPartialStats ==
        IF ~Has(walletStats, "farmedAmount")
           \/ walletStats.farmedAmount.lastHeightFarmed # farmedAmount.lastHeightFarmed
        THEN Put(t.partial, "farmedAmount", farmedAmount) ELSE t.partial
  IN [sc EXCEPT !.heap[t.obj] = Put(walletStats, "farmedAmount", farmedAmount),
                !.tasks[i].pc = "getPublicKey",
                !.tasks[i].partial = walletPartialStats]

\* getPublicKey has answered: the end of updateWalletStats
walletGotPublicKey(sc, i, fingerprint, time) ==
  LET t == sc.tasks[i]
      walletStats == sc.heap[t.obj]
      walletPartialStats ==
        IF ~Has(walletStats, "fingerprint") \/ walletStats.fingerprint # fingerprint
        THEN Put(t.partial, "fingerprint", fingerprint) ELSE t.partial
      s1 == [sc EXCEPT !.heap[t.obj] = Put(walletStats, "fingerprint", fingerprint),
                       !.tasks = RemoveAt(@, i)]
  IN setStatsForService(s1, walletService, t.obj, walletPartialStats, time)

\* getEffectivePlotSizeInBytes(size): the effective size of a plot of a size
\* class, here one GiB for each unit of the class
getEffectivePlotSizeInBytes(size) == size * BytesPerGib

\* the sum of the capacities in GiB of the plots at the positions in idx
RECURSIVE SumOver(_, _)
SumOver(f, idx) ==
  IF idx = {} THEN 0
  ELSE LET j == CHOOSE x \in idx : TRUE IN f[j] + SumOver(f, idx \ {j})

\* the statistics of one pool of plots
PlotStats(plots, idx) ==
  LET base == [count |-> Cardinality(idx),
               rawCapacityInGib |->
                 SumOver([j \in DOMAIN plots |-> capacityInGib(plots[j].file_size)], idx),
               effectiveCapacityInGib |->
                 SumOver([j \in DOMAIN plots |->
                            capacityInGib(getEffectivePlotSizeInBytes(plots[j].size))], idx)]
  IN IF enableCompatibilityMode
     THEN Put(base, "capacityInGib", base.effectiveCapacityInGib) ELSE base

\* returns EmptyObj where the code returns undefined
makeHarvesterPlotsPartialStats(plots, newPlots) ==
  ChangedFields(plots, newPlots, {"count", "rawCapacityInGib", "effectiveCapacityInGib"})

\* one pool of updateHarvesterStats: the stats and the partial after it
HarvesterPool(st, key, plotStats) ==
  LET harvesterStats == st.stats
      differs == \/ ~Has(harvesterStats, key)
                 \/ harvesterStats[key].count # plotStats.count
                 \/ harvesterStats[key].rawCapacityInGib # plotStats.rawCapacityInGib
                 \/ harvesterStats[key].effectiveCapacityInGib # plotStats.effectiveCapacityInGib
      changed == makeHarvesterPlotsPartialStats(harvesterStats[key], plotStats)
  IN IF ~differs THEN st
     ELSE [stats |-> Put(harvesterStats, key, plotStats),
           partial |-> IF ~Has(harvesterStats, key) THEN Put(st.partial, key, plotStats)
                       ELSE IF changed # EmptyObj THEN Put(st.partial, key, changed)
                       ELSE st.partial]

\* one total of updateHarvesterStats
HarvesterTotal(st, key, value) ==
  IF Has(st.stats, key) /\ st.stats[key] = value THEN st
  ELSE [stats |-> IF key = "totalEffectivePlotCapacityInGib" /\ enableCompatibilityMode
                  THEN Put(Put(st.stats, key, value), "totalCapacityInGib", value)
                  ELSE Put(st.stats, key, value),
        partial |-> Put(st.partial, key, value)]

\* updateHarvesterStats up to its first await
updateHarvesterStatsBegin(sc) ==
  IF ~isServiceRunning[harvesterService] THEN sc
  ELSE [WithStatsObj(sc, harvesterService) EXCEPT
          !.tasks = Append(@, Task("updateHarvesterStats", "getPlots", harvesterService,
                                   StatsId(sc, harvesterService), EmptyObj, EmptyObj))]

\* getPlots has answered
harvesterGotPlots(sc, i, plots) ==
  LET t == sc.tasks[i]
      ogPlotStats == PlotStats(plots, {j \in DOMAIN plots : plots[j].pool_public_key # 0})
      nftPlotStats ==
        PlotStats(plots, {j \in DOMAIN plots : plots[j].pool_contract_puzzle_hash # 0})
      st1 == HarvesterPool([stats |-> sc.heap[t.obj], partial |-> EmptyObj],
                           "ogPlots", ogPlotStats)
      st2 == HarvesterPool(st1, "nftPlots", nftPlotStats)
      st3 == HarvesterTotal(st2, "plotCount", ogPlotStats.count + nftPlotStats.count)
      st4 == HarvesterTotal(st3, "totalRawPlotCapacityInGib",
                            ogPlotStats.rawCapacityInGib + nftPlotStats.rawCapacityInGib)
      st5 == HarvesterTotal(st4, "totalEffectivePlotCapacityInGib",
                            ogPlotStats.effectiveCapacityInGib
                              + nftPlotStats.effectiveCapacityInGib)
  IN [sc EXCEPT !.heap[t.obj] = st5.stats,
                !.tasks[i].pc = "getConnections",
                !.tasks[i].partial = st5.partial]

\* getConnections has answered: the end of updateHarvesterStats
harvesterGotConnections(sc, i, connections, time) ==
  LET t == sc.tasks[i]
      harvesterStats == sc.heap[t.obj]
      count == CountType(connections, "farmer")
      differs == ~Has(harvesterStats, "farmerConnectionsCount")
                 \/ harvesterStats.farmerConnectionsCount # count
      s1 == [sc EXCEPT !.heap[t.obj] = IF differs
                                       THEN Put(harvesterStats, "farmerConnectionsCount", count)
                                       ELSE harvesterStats,
                       !.tasks = RemoveAt(@, i)]
  IN setStatsForService(s1, harvesterService, t.obj,
                        IF differs THEN Put(t.partial, "farmerConnectionsCount", count)
                        ELSE t.partial, time)

\* moment().subtract(30, 'minutes'), the clock counting seconds
ThirtyMinutes == 1800

\* the sum of the proofs of the entries of an array
ProofCount(infos) == Sum([i \in DOMAIN infos |-> infos[i].proofs])

\* sendNotification(message): the request is recorded
sendNotification(sent, message) == Append(sent, message)

\* the line of the message of sendNewProofNotification that carries the count
NewProofMessage(count) == "New proof found: " \o ToString(count)

sendNewProofNotification(sent, count) == sendNotification(sent, NewProofMessage(count))

\* newProofCount of updateFarmerStats
newProofCount(farmerStats, infos) ==
  ProofCount(infos) - (IF Has(farmerStats, "lastProofCount")
                       THEN farmerStats.lastProofCount ELSE 0)

\* the end of updateFarmerStats, farmingInfos being the array it took from
\* this.farmingInfos when it started
updateFarmerStatsEnd(sc, id, infos, time) ==
  LET farmerStats == Put(sc.heap[id], "lastProofCount", ProofCount(infos))
  IN setStatsForService([sc EXCEPT !.heap[id] = farmerStats], farmerService, id,
                        farmerStats, time)

\* updateFarmerStats up to its await of sendNewProofNotification, or to its
\* end when there is no new proof
updateFarmerStatsBegin(sc, infos, time) ==
  IF ~isServiceEnabled(farmerService) THEN sc
  ELSE LET id == StatsId(sc, farmerService)
           s0 == WithStatsObj(sc, farmerService)
           last30MinsFarmingInfos ==
             SelectSeq(infos, LAMBDA farmingInfo : farmingInfo.receivedAt >= time - ThirtyMinutes)
           last30MinsPassedFilterSum ==
             Sum([i \in DOMAIN last30MinsFarmingInfos |-> last30MinsFarmingInfos[i].passedFilter])
           farmerStats ==
             Put(Put(Put(s0.heap[id],
               "farmingInfos", getFarmingInfosForApi(Slice(infos, maximumFarmingInfos))),
               "avgPassedFilter", Quotient(last30MinsPassedFilterSum,
                                           IF Len(last30MinsFarmingInfos) > 0
                                           THEN Len(last30MinsFarmingInfos) ELSE 1)),
               "totalPlotCount", IF Len(infos) > 0 THEN infos[1].totalPlots ELSE 0)
           s1 == [s0 EXCEPT !.heap[id] = farmerStats]
       IN IF newProofCount(farmerStats, infos) > 0
          THEN [s1 EXCEPT !.tasks = Append(@, Task("updateFarmerStats",
                                                   "sendNewProofNotification", farmerService, id,
                                                   EmptyObj,
                                                   [farmingInfos |-> infos, same |-> TRUE]))]
          ELSE updateFarmerStatsEnd(s1, id, infos, time)

\* updateStats(): the three polls, each as far as it runs before it waits
updateStats(sc, infos, time) ==
  updateFarmerStatsBegin(updateHarvesterStatsBegin(updateWalletStatsBegin(sc)), infos, time)

\* the farmer's stats as updateFarmerStats finds them
FarmerStats == IF stats[farmerService] # 0 THEN heap[stats[farmerService]] ELSE EmptyObj

\* the notifications requested once updateStats() has run as far as it goes:
\* updateFarmerStats calls sendNewProofNotification when newProofCount > 0
updateStatsNotifications ==
  IF isServiceEnabled(farmerService) /\ newProofCount(FarmerStats, farmingInfos) > 0
  THEN sendNewProofNotification(notifications, newProofCount(FarmerStats, farmingInfos))
  ELSE notifications

\* the timer of the stats refresh fires; the answers the polls wait for take
\* any time, so it may fire again before they have come
UpdateStats ==
  /\ Running /\ events < MaxEvents
  /\ Cardinality(FreeIds(SC)) >= 3
  /\ LET sc == updateStats(SC, farmingInfos, now)
     IN /\ Len(sc.tasks) <= MaxTasks
        /\ Fits(sc)
        /\ Commit(sc)
        /\ last' = [op |-> "updateStats", d |-> Dispatch(sc),
                    lastProofCount |-> IF Has(FarmerStats, "lastProofCount")
                                       THEN FarmerStats.lastProofCount ELSE 0,
                    waits |-> \E i \in DOMAIN sc.tasks :
                                sc.tasks[i].kind = "updateFarmerStats"]
  /\ notifications' = updateStatsNotifications
  /\ events' = events + 1
  /\ UNCHANGED <<jobLogs, boot, config, phase, now, enabledServices, isServiceRunning,
                 walletIsLoggedIn, farmingInfos, harvesterResponseTimes, notices>>

AtPc(i, kind, pc) == tasks[i].kind = kind /\ tasks[i].pc = pc

WalletLists == {<<[id |-> 1, name |-> "Chia Wallet", type |-> 0]>>}
RawBalances == {0, 1}
RawSyncStatuses == {[synced |-> TRUE, syncing |-> FALSE]}
SyncedHeights == {1}
FarmedAmountResponses == {[last_height_farmed |-> 1]}
Fingerprints == {1}

WalletGetWallets ==
  /\ \E i \in DOMAIN tasks, wallets \in WalletLists :
       /\ AtPc(i, "updateWalletStats", "getWallets")
       /\ Commit(walletGotWallets(SC, i, wallets))
  /\ last' = [op |-> "await"]
  /\ UNCHANGED PollFrame

WalletGetBalance ==
  /\ \E i \in DOMAIN tasks :
       /\ AtPc(i, "updateWalletStats", "getBalance")
       /\ \E balances \in [DOMAIN tasks[i].loc.wallets -> RawBalances] :
            Commit(walletGotBalances(SC, i, balances))
  /\ last' = [op |-> "await"]
  /\ UNCHANGED PollFrame

WalletGetSyncStatus ==
  /\ \E i \in DOMAIN tasks, syncStatus \in RawSyncStatuses :
       /\ AtPc(i, "updateWalletStats", "getWalletSyncStatus")
       /\ Commit(walletGotSyncStatus(SC, i, syncStatus))
  /\ last' = [op |-> "await"]
  /\ UNCHANGED PollFrame

WalletGetSyncedHeight ==
  /\ \E i \in DOMAIN tasks, syncedHeight \in SyncedHeights :
       /\ AtPc(i, "updateWalletStats", "getWalletSyncedHeight")
       /\ Commit(walletGotSyncedHeight(SC, i, syncedHeight))
  /\ last' = [op |-> "await"]
  /\ UNCHANGED PollFrame

WalletGetFarmedAmount ==
  /\ \E i \in DOMAIN tasks, farmedAmountResponse \in FarmedAmountResponses :
       /\ AtPc(i, "updateWalletStats", "getFarmedAmount")
       /\ Commit(walletGotFarmedAmount(SC, i, farmedAmountResponse))
  /\ last' = [op |-> "await"]
  /\ UNCHANGED PollFrame

WalletGetPublicKey ==
  /\ \E i \in DOMAIN tasks, fingerprint \in Fingerprints :
       /\ AtPc(i, "updateWalletStats", "getPublicKey")
       /\ LET sc == walletGotPublicKey(SC, i, fingerprint, now)
          IN /\ Fits(sc)
             /\ Commit(sc)
             /\ last' = [op |-> "updateWalletStats", d |-> Dispatch(sc)]
  /\ UNCHANGED PollFrame

RawPlot(poolPublicKey, poolContractPuzzleHash, fileSize, size) ==
  [pool_public_key |-> poolPublicKey, pool_contract_puzzle_hash |-> poolContractPuzzleHash,
   file_size |-> fileSize, size |-> size]
PlotLists ==
  {<<RawPlot(1, 0, BytesPerGib, 1)>>,
   <<RawPlot(1, 0, BytesPerGib, 1), RawPlot(0, 1, BytesPerGib, 1)>>}

HarvesterGetPlots ==
  /\ \E i \in DOMAIN tasks, plots \in PlotLists :
       /\ AtPc(i, "updateHarvesterStats", "getPlots")
       /\ Commit(harvesterGotPlots(SC, i, plots))
  /\ last' = [op |-> "await"]
  /\ UNCHANGED PollFrame

HarvesterGetConnections ==
  /\ \E i \in DOMAIN tasks, connections \in ConnectionLists :
       /\ AtPc(i, "updateHarvesterStats", "getConnections")
       /\ LET sc == harvesterGotConnections(SC, i, connections, now)
          IN /\ Fits(sc)
             /\ Commit(sc)
             /\ last' = [op |-> "updateHarvesterStats", d |-> Dispatch(sc)]
  /\ UNCHANGED PollFrame

\* sendNewProofNotification has answered
FarmerNotified ==
  /\ \E i \in DOMAIN tasks :
       /\ AtPc(i, "updateFarmerStats", "sendNewProofNotification")
       /\ LET sc == updateFarmerStatsEnd([SC EXCEPT !.tasks = RemoveAt(@, i)], tasks[i].obj,
                                         tasks[i].loc.farmingInfos, now)
          IN /\ Fits(sc)
             /\ Commit(sc)
             /\ last' = [op |-> "updateFarmerStats", d |-> Dispatch(sc)]
  /\ UNCHANGED PollFrame

(* ------------------------------------------------------------- bootstrap *)
\* the four calls of tryUntilSucceeded in init(), in their order; boot.pc is
\* 0 before the initial delay is over, the index of the step that init()
\* stands at, and 5 when the timers are installed
BootSteps == <<"updateRunningServices", "updateStats", "updateFullNodeStats",
               "updateSummaryReport">>
Timers == {"updateStats", "updateRunningServices", "updateSummaryReport"}

BootNote(b, what) == [b EXCEPT !.trace = Append(@, [step |-> BootSteps[b.pc], what |-> what])]

\* tryUntilSucceeded: methodReturningPromise() is called and awaited
tryInvoke(b) == [BootNote(b, "invoke") EXCEPT !.loop = "awaiting", !.inProgress = @ + 1]

\* a faulty tryReturned: the timers are installed behind the first step
tryReturned_TimersEarly(b) ==
  [BootNote(b, "return") EXCEPT !.loop = "top", !.inProgress = @ - 1, !.pc = @ + 1,
                                !.timers = Timers]

\* tryUntilSucceeded: the awaited call has returned, the loop ends, and
\* init() goes on to its next statement; behind the last step the three
\* timers are installed
tryReturned(b) ==
  [BootNote(b, "return") EXCEPT !.loop = "top", !.inProgress = @ - 1, !.pc = @ + 1,
                                !.timers = IF b.pc = Len(BootSteps) THEN Timers ELSE @]

\* a faulty tryThrown: the failed step is given up and init() goes on
tryThrown_GivesUp(b) ==
  [BootNote(b, "throw") EXCEPT !.loop = "top", !.inProgress = @ - 1, !.failures = @ + 1,
                               !.pc = @ + 1]

\* tryUntilSucceeded: the awaited call has thrown, the error is logged and
\* the timeout of one second is awaited
tryThrown(b) ==
  [BootNote(b, "throw") EXCEPT !.loop = "sleeping", !.inProgress = @ - 1, !.failures = @ + 1]

\* tryUntilSucceeded: the timeout is over, the loop starts again
tryAgain(b) == [b EXCEPT !.loop = "top"]

AtStep(step) == boot.pc \in DOMAIN BootSteps /\ BootSteps[boot.pc] = step
MayInvoke(step) == Running /\ AtStep(step) /\ boot.loop = "top"
Awaiting(step) == AtStep(step) /\ boot.loop = "awaiting"

\* this.delay(config.initialWaitTimeInMinutes * 60 * 1000) is over
BootDelayOver ==
  /\ Running /\ boot.pc = 0
  /\ boot' = [boot EXCEPT !.pc = 1]
  /\ last' = [op |-> "delay"]
  /\ UNCHANGED <<jobLogs, notifications, config, phase, now, heap, stats, partialStats, throttle,
                 inflight, view, enabledServices, isServiceRunning, walletIsLoggedIn, farmingInfos,
                 harvesterResponseTimes, notices, tasks, burst, enqueued, events>>

\* the timeout behind a failed invocation is over
BootRetry ==
  /\ boot.loop = "sleeping"
  /\ boot' = tryAgain(boot)
  /\ last' = [op |-> "retry"]
  /\ UNCHANGED <<jobLogs, notifications, config, phase, now, heap, stats, partialStats, throttle,
                 inflight, view, enabledServices, isServiceRunning, walletIsLoggedIn, farmingInfos,
                 harvesterResponseTimes, notices, tasks, burst, enqueued, events>>

\* the probes of updateRunningServices, one for each enabled service except
\* the plotter
Probes ==
  LET probed == SelectSeq2(allServices, enabledServices \ {plotterService})
  IN [i \in DOMAIN probed |->
        Task("detect", "isServiceRunning", probed[i], 0, EmptyObj, EmptyObj)]

\* the polls updateStats starts
Polls == {"updateWalletStats", "updateHarvesterStats", "updateFarmerStats"}

HasTask(kinds) == \E i \in DOMAIN tasks : tasks[i].kind \in kinds

\* tryUntilSucceeded(updateRunningServices) calls updateRunningServices
BootUpdateRunningServices ==
  /\ MayInvoke("updateRunningServices")
  /\ Len(tasks) + Len(Probes) <= MaxTasks
  /\ tasks' = tasks \o Probes
  /\ boot' = tryInvoke(boot)
  /\ last' = [op |-> "updateRunningServices"]
  /\ UNCHANGED <<jobLogs, notifications, config, phase, now, heap, stats, partialStats, throttle,
                 inflight, view, enabledServices, isServiceRunning, walletIsLoggedIn, farmingInfos,
                 harvesterResponseTimes, notices, burst, enqueued, events>>

\* every probe of the awaited updateRunningServices has ended
BootRunningServicesUpdated ==
  /\ Awaiting("updateRunningServices") /\ ~HasTask({"detect"})
  /\ boot' = tryReturned(boot)
  /\ last' = [op |-> "return"]
  /\ UNCHANGED <<jobLogs, notifications, config, phase, now, heap, stats, partialStats, throttle,
                 inflight, view, enabledServices, isServiceRunning, walletIsLoggedIn, farmingInfos,
                 harvesterResponseTimes, notices, tasks, burst, enqueued, events>>

\* tryUntilSucceeded(updateStats) calls updateStats
BootUpdateStats ==
  /\ MayInvoke("updateStats")
  /\ Cardinality(FreeIds(SC)) >= 3
  /\ LET sc == updateStats(SC, farmingInfos, now)
     IN /\ Len(sc.tasks) <= MaxTasks
        /\ Fits(sc)
        /\ Commit(sc)
        /\ last' = [op |-> "updateStats", d |-> Dispatch(sc)]
  /\ boot' = tryInvoke(boot)
  /\ notifications' = updateStatsNotifications
  /\ UNCHANGED <<jobLogs, config, phase, now, enabledServices, isServiceRunning,
                 walletIsLoggedIn, farmingInfos, harvesterResponseTimes, notices, events>>

\* every poll of the awaited updateStats has ended
BootStatsUpdated ==
  /\ Awaiting("updateStats") /\ ~HasTask(Polls)
  /\ boot' = tryReturned(boot)
  /\ last' = [op |-> "return"]
  /\ UNCHANGED <<jobLogs, notifications, config, phase, now, heap, stats, partialStats, throttle,
                 inflight, view, enabledServices, isServiceRunning, walletIsLoggedIn, farmingInfos,
                 harvesterResponseTimes, notices, tasks, burst, enqueued, events>>

\* an awaited call of a handler that a bootstrap step waits for rejects: the
\* handler ends there and tryUntilSucceeded catches the error
BootTaskFails ==
  /\ boot.loop = "awaiting"
  /\ \E i \in DOMAIN tasks :
       /\ \/ AtStep("updateRunningServices") /\ tasks[i].kind = "detect"
          \/ AtStep("updateStats") /\ tasks[i].kind \in Polls
          \/ AtStep("updateFullNodeStats") /\ tasks[i].kind = "updateFullNodeStats"
       /\ Commit([SC EXCEPT !.tasks = RemoveAt(tasks, i)])
  /\ boot.failures < MaxFailures
  /\ boot' = tryThrown(boot)
  /\ last' = [op |-> "taskFails"]
  /\ UNCHANGED <<jobLogs, notifications, config, phase, now, enabledServices, isServiceRunning,
                 walletIsLoggedIn, farmingInfos, harvesterResponseTimes, notices, events>>

\* tryUntilSucceeded(updateSummaryReport) calls updateSummaryReport: the
\* report is generated from the stats and handed to sendNotification
BootUpdateSummaryReport ==
  /\ MayInvoke("updateSummaryReport")
  /\ notifications' = sendNotification(notifications, "summary")
  /\ boot' = tryInvoke(boot)
  /\ last' = [op |-> "updateSummaryReport"]
  /\ UNCHANGED <<jobLogs, config, phase, now, heap, stats, partialStats, throttle,
                 inflight, view, enabledServices, isServiceRunning, walletIsLoggedIn, farmingInfos,
                 harvesterResponseTimes, notices, tasks, burst, enqueued, events>>

\* the awaited sendNotification of updateSummaryReport has returned
BootSummaryReported ==
  /\ Awaiting("updateSummaryReport")
  /\ boot' = tryReturned(boot)
  /\ last' = [op |-> "return"]
  /\ UNCHANGED <<jobLogs, notifications, config, phase, now, heap, stats, partialStats, throttle,
                 inflight, view, enabledServices, isServiceRunning, walletIsLoggedIn, farmingInfos,
                 harvesterResponseTimes, notices, tasks, burst, enqueued, events>>

(* -------------------------------------------------------- full node poll *)
\* updateFullNodeStats up to its first await
updateFullNodeStatsBegin(sc) ==
  IF ~isServiceRunning[fullNodeService] THEN sc
  ELSE [WithStatsObj(sc, fullNodeService) EXCEPT
          !.tasks = Append(@, Task("updateFullNodeStats", "getBlockchainState", fullNodeService,
                                   StatsId(sc, fullNodeService), EmptyObj, EmptyObj))]

\* getBlockchainState has answered
fullNodeGotBlockchainState(sc, i, blockchainState) ==
  LET t == sc.tasks[i]
      fullNodeStats == sc.heap[t.obj]
      newBlockchainState == getRelevantBlockchainState(blockchainState)
      blockchainPartialStats ==
        getBlockchainStatePartialStats(fullNodeStats.blockchainState, newBlockchainState)
      partialFullNodeStats ==
        IF Has(fullNodeStats, "blockchainState")
        THEN IF blockchainPartialStats # EmptyObj
             THEN [blockchainState |-> blockchainPartialStats] ELSE EmptyObj
        ELSE [blockchainState |-> newBlockchainState]
  IN [sc EXCEPT !.tasks[i].pc = "getConnections",
                !.tasks[i].partial = partialFullNodeStats,
                !.tasks[i].loc = [newBlockchainState |-> newBlockchainState]]

\* the synced flag of a stats object: <<>> when it has none
SyncedOf(fullNodeStats) ==
  IF Has(fullNodeStats, "blockchainState")
  THEN <<fullNodeStats.blockchainState.syncStatus.synced>> ELSE <<>>

\* the notifications updateFullNodeStats requests for wasSynced and isSynced
SyncNotifications(sent, wasSynced, isSynced) ==
  IF wasSynced = <<FALSE>> /\ isSynced = <<TRUE>> THEN sendNotification(sent, "Full Node Synced")
  ELSE IF wasSynced = <<TRUE>> /\ isSynced = <<FALSE>>
    THEN sendNotification(sent, "Full Node Unsynced")
  ELSE sent

\* getConnections has answered: the rest of updateFullNodeStats
fullNodeGotConnections(sc, i, connections, time) ==
  LET t == sc.tasks[i]
      fullNodeStats == sc.heap[t.obj]
      count == CountType(connections, "fullNode")
      partialFullNodeStats ==
        IF ~Has(fullNodeStats, "fullNodeConnectionsCount")
           \/ fullNodeStats.fullNodeConnectionsCount # count
        THEN Put(t.partial, "fullNodeConnectionsCount", count) ELSE t.partial
      s1 == [sc EXCEPT !.heap[t.obj] =
                         Put(Put(fullNodeStats, "blockchainState", t.loc.newBlockchainState),
                             "fullNodeConnectionsCount", count),
                       !.tasks = RemoveAt(@, i)]
  IN setStatsForService(s1, fullNodeService, t.obj, partialFullNodeStats, time)

\* tryUntilSucceeded(updateFullNodeStats) calls updateFullNodeStats; when
\* the full node is not running the call returns at once
UpdateFullNodeStats ==
  /\ MayInvoke("updateFullNodeStats")
  /\ CanAlloc(SC)
  /\ LET sc == updateFullNodeStatsBegin(SC)
     IN /\ Len(sc.tasks) <= MaxTasks
        /\ Commit(sc)
        /\ boot' = IF isServiceRunning[fullNodeService] THEN tryInvoke(boot)
                   ELSE tryReturned(tryInvoke(boot))
  /\ last' = [op |-> "updateFullNodeStats"]
  /\ UNCHANGED <<jobLogs, notifications, config, phase, now, enabledServices, isServiceRunning,
                 walletIsLoggedIn, farmingInfos, harvesterResponseTimes, notices, events>>

FullNodeGetBlockchainState ==
  /\ \E i \in DOMAIN tasks, blockchainState \in RawBlockchainStates :
       /\ AtPc(i, "updateFullNodeStats", "getBlockchainState")
       /\ Commit(fullNodeGotBlockchainState(SC, i, blockchainState))
  /\ last' = [op |-> "await"]
  /\ UNCHANGED <<aux, config, phase, now, enabledServices, isServiceRunning, walletIsLoggedIn,
                 farmingInfos, harvesterResponseTimes, notices, events>>

FullNodeGetConnections ==
  /\ \E i \in DOMAIN tasks, connections \in ConnectionLists :
       /\ AtPc(i, "updateFullNodeStats", "getConnections")
       /\ LET sc == fullNodeGotConnections(SC, i, connections, now)
              wasSynced == SyncedOf(heap[tasks[i].obj])
              isSynced == SyncedOf([blockchainState |-> tasks[i].loc.newBlockchainState])
          IN /\ Fits(sc)
             /\ Commit(sc)
             /\ notifications' = SyncNotifications(notifications, wasSynced, isSynced)
             /\ last' = [op |-> "updateFullNodeStats.end", d |-> Dispatch(sc),
                         partial |-> IF ~Has(heap[tasks[i].obj], "fullNodeConnectionsCount")
                                        \/ heap[tasks[i].obj].fullNodeConnectionsCount
                                             # CountType(connections, "fullNode")
                                     THEN Put(tasks[i].partial, "fullNodeConnectionsCount",
                                              CountType(connections, "fullNode"))
                                     ELSE tasks[i].partial]
  /\ boot' = tryReturned(boot)
  /\ UNCHANGED <<jobLogs, config, phase, now, enabledServices, isServiceRunning,
                 walletIsLoggedIn, farmingInfos, harvesterResponseTimes, notices, events>>

(* ---------------------------------------------------------------- timers *)
\* history: what a timer did is added to boot.trace
CycleNote(b, timer, what) == [b EXCEPT !.trace = Append(@, [step |-> timer, what |-> what])]

\* a faulty cycleCaught: the failure ends the timer
cycleCaught_ClearsInterval(b, timer) ==
  [CycleNote(b, timer, "caught") EXCEPT !.timers = @ \ {timer}]

\* the catch branch of a timer's callback: the error is logged
cycleCaught(b, timer) == CycleNote(b, timer, "caught")

\* the timer of the stats refresh fires
StatsTimer ==
  /\ "updateStats" \in boot.timers
  /\ Running /\ events < MaxEvents
  /\ Cardinality(FreeIds(SC)) >= 3
  /\ LET sc == updateStats(SC, farmingInfos, now)
     IN /\ Len(sc.tasks) <= MaxTasks
        /\ Fits(sc)
        /\ Commit(sc)
        /\ last' = [op |-> "updateStats", d |-> Dispatch(sc)]
  /\ boot' = CycleNote(boot, "updateStats", "fire")
  /\ notifications' = updateStatsNotifications
  /\ events' = events + 1
  /\ UNCHANGED <<jobLogs, config, phase, now, enabledServices, isServiceRunning,
                 walletIsLoggedIn, farmingInfos, harvesterResponseTimes, notices>>

\* the timer of the running services fires
RunningServicesTimer ==
  /\ "updateRunningServices" \in boot.timers
  /\ Running /\ events < MaxEvents
  /\ Len(tasks) + Len(Probes) <= MaxTasks
  /\ tasks' = tasks \o Probes
  /\ boot' = CycleNote(boot, "updateRunningServices", "fire")
  /\ events' = events + 1
  /\ last' = [op |-> "updateRunningServices"]
  /\ UNCHANGED <<jobLogs, notifications, config, phase, now, heap, stats, partialStats, throttle,
                 inflight, view, enabledServices, isServiceRunning, walletIsLoggedIn, farmingInfos,
                 harvesterResponseTimes, notices, burst, enqueued>>

\* the timer of the summary report fires: the report is handed to
\* sendNotification, which may throw before anything is sent
SummaryTimer ==
  /\ "updateSummaryReport" \in boot.timers
  /\ Running /\ events < MaxEvents
  /\ notifications' = sendNotification(notifications, "summary")
  /\ \E thrown \in BOOLEAN :
       /\ boot' = IF thrown
                  THEN cycleCaught(CycleNote(boot, "updateSummaryReport", "fire"),
                                   "updateSummaryReport")
                  ELSE CycleNote(boot, "updateSummaryReport", "fire")
       /\ last' = [op |-> "updateSummaryReport", thrown |-> thrown]
  /\ events' = events + 1
  /\ UNCHANGED <<jobLogs, config, phase, now, heap, stats, partialStats, throttle, inflight, view,
                 enabledServices, isServiceRunning, walletIsLoggedIn, farmingInfos,
                 harvesterResponseTimes, notices, tasks, burst, enqueued>>

\* the timer whose callback awaits a handler of this kind
TimerOf(kind) == IF kind = "detect" THEN "updateRunningServices" ELSE "updateStats"

\* an awaited call of a handler that a timer's callback waits for rejects:
\* the handler ends there and the callback catches the error
TimerTaskFails ==
  /\ boot.timers # {}
  /\ \E i \in DOMAIN tasks :
       /\ tasks[i].kind \in Polls \cup {"detect"}
       /\ Commit([SC EXCEPT !.tasks = RemoveAt(tasks, i)])
       /\ boot' = cycleCaught(boot, TimerOf(tasks[i].kind))
  /\ last' = [op |-> "taskFails"]
  /\ UNCHANGED <<jobLogs, notifications, config, phase, now, enabledServices, isServiceRunning,
                 walletIsLoggedIn, farmingInfos, harvesterResponseTimes, notices, events>>

(* ------------------------------------------------------- specifications *)
\* a configuration file; the excluded services are listed in the order of
\* allServices
ConfigOf(compat, excluded, maxInfos, sampleSize) ==
  [enableCompatibilityMode |-> compat,
   excludedServices |-> SelectSeq2(allServices, excluded),
   maximumFarmingInfos |-> maxInfos, responseTimeSampleSize |-> sampleSize]

\* the dispatcher under the push events of the full node, every other
\* service excluded by configuration, in both modes
InitThrottle ==
  /\ ConstructorState
  /\ \E compat \in {Null, <<FALSE>>} :
       config = ConfigOf(compat, Services \ {fullNodeService}, 2, 2)

NextThrottle ==
  \/ InitConfig
  \/ Tick
  \/ TimerExpired
  \/ TransportDone
  \/ NewBlockchainState
  \/ ConnectionChange

SpecThrottle == InitThrottle /\ [][NextThrottle]_vars

\* service detection next to the push events of the full node: full node
\* and farmer enabled
InitDetect ==
  /\ ConstructorState
  /\ \E compat \in {Null, <<FALSE>>} :
       config = ConfigOf(compat, {walletService, harvesterService, plotterService}, 2, 2)

NextDetect ==
  \/ InitConfig
  \/ Tick
  \/ TimerExpired
  \/ TransportDone
  \/ ConnectionChange
  \/ UpdateRunningServices
  \/ DetectIsRunning
  \/ TaskFails

SpecDetect == InitDetect /\ [][NextDetect]_vars

\* the farmer's push events, every other service excluded by configuration
InitFarmer ==
  /\ ConstructorState
  /\ \E maxInfos \in 1..2 :
       config = ConfigOf(<<FALSE>>, Services \ {farmerService}, maxInfos, 2)

NextFarmer ==
  \/ InitConfig
  \/ Tick
  \/ TimerExpired
  \/ TransportDone
  \/ NewSignagePoint
  \/ NewFarmingInfo
  \/ NewFarmingInfoNull

SpecFarmer == InitFarmer /\ [][NextFarmer]_vars

\* the polls of the wallet, the only enabled service, next to service
\* detection and the dispatcher
InitPoll ==
  /\ ConstructorState
  /\ \E compat \in {Null, <<FALSE>>} :
       config = ConfigOf(compat, Services \ {walletService}, 2, 2)

NextPoll ==
  \/ InitConfig
  \/ Tick
  \/ TimerExpired
  \/ TransportDone
  \/ UpdateRunningServices
  \/ DetectIsRunning
  \/ DetectPublicKeys
  \/ DetectGetPublicKey
  \/ DetectLoggedIn
  \/ UpdateStats
  \/ WalletGetWallets
  \/ WalletGetBalance
  \/ WalletGetSyncStatus
  \/ WalletGetSyncedHeight
  \/ WalletGetFarmedAmount
  \/ WalletGetPublicKey
  \/ TaskFails

SpecPoll == InitPoll /\ [][NextPoll]_vars

\* the plotter's push events, every other service excluded by configuration,
\* in the mode of a configuration that sets none
InitPlotter ==
  /\ ConstructorState
  /\ config = ConfigOf(Null, Services \ {plotterService}, 2, 2)

NextPlotter ==
  \/ InitConfig
  \/ Tick
  \/ TimerExpired
  \/ TransportDone
  \/ NewPlottingQueueStats
  \/ NewPlottingQueueStatsNull

SpecPlotter == InitPlotter /\ [][NextPlotter]_vars

\* the four push events without payload next to the blockchain state with
\* one: full node, farmer and plotter enabled, the farmer's buffer holding
\* no entry of a notice with payload
InitNull ==
  /\ ConstructorState
  /\ config = ConfigOf(Null, {walletService, harvesterService}, 2, 2)

NextNull ==
  \/ InitConfig
  \/ Tick
  \/ TimerExpired
  \/ TransportDone
  \/ NewBlockchainState
  \/ NewBlockchainStateNull
  \/ NewSignagePointNull
  \/ NewFarmingInfoNull
  \/ NewPlottingQueueStatsNull

SpecNull == InitNull /\ [][NextNull]_vars

\* init() behind the registration of the handlers with the full node as the
\* only enabled service: the bootstrap calls next to the push event of the
\* blockchain state and the dispatcher
InitFullNode ==
  /\ ConstructorState
  /\ config = ConfigOf(Null, Services \ {fullNodeService}, 2, 2)

NextFullNode ==
  \/ InitConfig
  \/ Tick
  \/ TimerExpired
  \/ TransportDone
  \/ NewBlockchainState
  \/ BootDelayOver
  \/ BootUpdateRunningServices
  \/ DetectIsRunning
  \/ BootRunningServicesUpdated
  \/ BootUpdateStats
  \/ BootStatsUpdated
  \/ UpdateFullNodeStats
  \/ FullNodeGetBlockchainState
  \/ FullNodeGetConnections
  \/ BootTaskFails
  \/ BootRetry
  \/ BootUpdateSummaryReport
  \/ BootSummaryReported

SpecFullNode == InitFullNode /\ [][NextFullNode]_vars

\* the bootstrap of init() alone, with the full node as the only enabled
\* service and no push event
NextBoot ==
  \/ InitConfig
  \/ Tick
  \/ TimerExpired
  \/ TransportDone
  \/ BootDelayOver
  \/ BootUpdateRunningServices
  \/ DetectIsRunning
  \/ BootRunningServicesUpdated
  \/ BootUpdateStats
  \/ BootStatsUpdated
  \/ UpdateFullNodeStats
  \/ FullNodeGetBlockchainState
  \/ FullNodeGetConnections
  \/ BootTaskFails
  \/ BootRetry
  \/ BootUpdateSummaryReport
  \/ BootSummaryReported

SpecBoot == InitFullNode /\ [][NextBoot]_vars

(* ---- tryUntilSucceeded with any function as methodReturningPromise *)
\* what the function does is left open here: that it is called, and whether
\* the promise it returns is fulfilled or rejected, is all that
\* tryUntilSucceeded sees of it
BootFrame == <<jobLogs, notifications, config, phase, now, heap, stats, partialStats, throttle,
               inflight, view, enabledServices, isServiceRunning, walletIsLoggedIn, farmingInfos,
               harvesterResponseTimes, notices, tasks, burst, enqueued, events>>

\* methodReturningPromise() is called
TryInvoke ==
  /\ Running /\ boot.pc \in DOMAIN BootSteps /\ boot.loop = "top"
  /\ boot' = tryInvoke(boot)
  /\ last' = [op |-> "invoke"]
  /\ UNCHANGED BootFrame

\* the promise is fulfilled
TryReturn ==
  /\ boot.pc \in DOMAIN BootSteps /\ boot.loop = "awaiting"
  /\ boot' = tryReturned(boot)
  /\ last' = [op |-> "return"]
  /\ UNCHANGED BootFrame

\* the promise is rejected
TryThrow ==
  /\ boot.pc \in DOMAIN BootSteps /\ boot.loop = "awaiting"
  /\ boot.failures < MaxFailures
  /\ boot' = tryThrown(boot)
  /\ last' = [op |-> "throw"]
  /\ UNCHANGED BootFrame

NextTry ==
  \/ InitConfig
  \/ Tick
  \/ TimerExpired
  \/ TransportDone
  \/ BootDelayOver
  \/ TryInvoke
  \/ TryReturn
  \/ TryThrow
  \/ BootRetry

SpecTry == InitThrottle /\ [][NextTry]_vars

\* the scheduling of the event loop: the function is called when the loop
\* stands before the call, a promise that does not fail is fulfilled, and a
\* timeout that is over runs its callback
TryProgress == BootDelayOver \/ TryInvoke \/ TryReturn \/ BootRetry

SpecTryFair == SpecTry /\ WF_vars(TryProgress)

\* init() behind the registration of the handlers with the wallet as the
\* only enabled service: the bootstrap and then the three timers, in the
\* time before the window of the dispatcher is over
InitTimers ==
  /\ ConstructorState
  /\ config = ConfigOf(Null, Services \ {walletService}, 2, 2)

NextTimers ==
  \/ InitConfig
  \/ BootDelayOver
  \/ BootUpdateRunningServices
  \/ BootRunningServicesUpdated
  \/ BootUpdateStats
  \/ BootStatsUpdated
  \/ UpdateFullNodeStats
  \/ BootUpdateSummaryReport
  \/ BootSummaryReported
  \/ BootTaskFails
  \/ BootRetry
  \/ DetectIsRunning
  \/ DetectPublicKeys
  \/ DetectGetPublicKey
  \/ DetectLoggedIn
  \/ WalletGetWallets
  \/ WalletGetBalance
  \/ WalletGetSyncStatus
  \/ WalletGetSyncedHeight
  \/ WalletGetFarmedAmount
  \/ WalletGetPublicKey
  \/ StatsTimer
  \/ RunningServicesTimer
  \/ SummaryTimer
  \/ TimerTaskFails

SpecTimers == InitTimers /\ [][NextTimers]_vars

(* ---- the field-level diffs on their own *)
\* the blockchain states getRelevantBlockchainState can return for a report
\* of the daemon
RelevantBlockchainStates ==
  { getRelevantBlockchainState(RawBlockchainState(difficulty, space, synced, syncMode, tip, peak)) :
      difficulty \in 1..2, space \in {0, BytesPerGib}, synced \in BOOLEAN,
      syncMode \in BOOLEAN, tip \in 0..2, peak \in 1..2 }

\* every list of at most MaxPlots plots of one pool
MaxPlots == 3
PoolPlots == { RawPlot(1, 0, fileSize, 1) : fileSize \in {0, BytesPerGib} }
PoolPlotLists == UNION { [1..n -> PoolPlots] : n \in 0..MaxPlots }

\* the statistics updateHarvesterStats builds for a pool, in the mode of the
\* configuration
PoolStats == { PlotStats(plots, DOMAIN plots) : plots \in PoolPlotLists }

\* two blockchain states, or the statistics of a pool at two polls
InitDiff ==
  /\ ConstructorFields
  /\ \E compat \in {Null, <<FALSE>>} : config = ConfigOf(compat, {}, 2, 2)
  /\ \/ \E prior \in RelevantBlockchainStates, next \in RelevantBlockchainStates :
          last = [op |-> "arguments", of |-> "getBlockchainStatePartialStats",
                  prior |-> prior, next |-> next]
     \/ \E prior \in PoolStats, next \in PoolStats :
          last = [op |-> "arguments", of |-> "makeHarvesterPlotsPartialStats",
                  prior |-> prior, next |-> next]

DiffFrame ==
  <<aux, config, phase, now, heap, stats, partialStats, throttle, inflight, view, enabledServices,
    isServiceRunning, walletIsLoggedIn, farmingInfos, harvesterResponseTimes, notices, tasks,
    burst, enqueued, events>>

DiffBlockchainStates ==
  /\ last.op = "arguments" /\ last.of = "getBlockchainStatePartialStats"
  /\ last' = [op |-> "returned", of |-> last.of, prior |-> last.prior, next |-> last.next,
              partial |-> getBlockchainStatePartialStats(last.prior, last.next)]
  /\ UNCHANGED DiffFrame

DiffPlots ==
  /\ last.op = "arguments" /\ last.of = "makeHarvesterPlotsPartialStats"
  /\ last' = [op |-> "returned", of |-> last.of, prior |-> last.prior, next |-> last.next,
              partial |-> makeHarvesterPlotsPartialStats(last.prior, last.next)]
  /\ UNCHANGED DiffFrame

NextDiff ==
  \/ DiffBlockchainStates
  \/ DiffPlots

SpecDiff == InitDiff /\ [][NextDiff]_vars

(* ---- setStatsForServiceWithoutUpdate with any partial *)
\* partials of the wallet: an array (wallets), a nested object (syncStatus)
\* and a plain value (fingerprint)
PartialsOfWallet ==
  { [wallets |-> <<[id |-> 2], [id |-> 3]>>,
     syncStatus |-> [synced |-> FALSE, syncedHeight |-> 1], fingerprint |-> 1],
    [wallets |-> <<[id |-> 1]>>, syncStatus |-> [syncedHeight |-> 2]],
    [wallets |-> <<>>],
    [syncStatus |-> [synced |-> TRUE]],
    [fingerprint |-> 2] }

\* a call of setStatsForServiceWithoutUpdate for the wallet with the stored
\* stats and a partial
SetStatsWithoutUpdate ==
  /\ MayHandle /\ isServiceEnabled(walletService)
  /\ \E partial \in PartialsOfWallet :
       /\ Commit(setStatsForServiceWithoutUpdate(NoteOther(WithStatsObj(SC, walletService)),
                                                 walletService, StatsId(SC, walletService),
                                                 partial))
       /\ last' = [op |-> "setStatsForServiceWithoutUpdate", partial |-> partial,
                   pending |-> IF Has(partialStats, walletService)
                                  /\ partialStats[walletService].t = "val"
                               THEN partialStats[walletService].v ELSE EmptyObj]
  /\ events' = events + 1
  /\ UNCHANGED <<aux, config, phase, now, enabledServices, isServiceRunning, walletIsLoggedIn,
                 farmingInfos, harvesterResponseTimes, notices>>

\* the partials of the wallet next to the push event and the dispatcher of
\* the full node, without compatibility mode
InitMerge ==
  /\ ConstructorState
  /\ config = ConfigOf(<<FALSE>>, {farmerService, harvesterService, plotterService}, 2, 2)

NextMerge ==
  \/ InitConfig
  \/ Tick
  \/ TimerExpired
  \/ TransportDone
  \/ ConnectionChange
  \/ SetStatsWithoutUpdate

SpecMerge == InitMerge /\ [][NextMerge]_vars

(* ---- the farmer's push events next to service detection *)
\* the farmer as the only enabled service, without compatibility mode: its
\* push events, the detection of running services and the dispatcher
InitStop ==
  /\ ConstructorState
  /\ config = ConfigOf(<<FALSE>>, Services \ {farmerService}, 2, 2)

NextStop ==
  \/ InitConfig
  \/ Tick
  \/ TimerExpired
  \/ TransportDone
  \/ NewSignagePoint
  \/ NewFarmingInfo
  \/ UpdateRunningServices
  \/ DetectIsRunning

SpecStop == InitStop /\ [][NextStop]_vars

(* ---- the wallet's login next to the plotter *)
\* wallet and plotter enabled: detection, the wallet's login, the stats
\* refresh and the dispatcher, in the mode of a configuration that sets none
InitLogin ==
  /\ ConstructorState
  /\ config = ConfigOf(Null, Services \ {walletService, plotterService}, 2, 2)

SpecLogin == InitLogin /\ [][NextPoll]_vars

(* ---- the farmer's re-evaluation next to its push events *)
\* the farmer as the only enabled service: the stats refresh with its wait
\* for sendNewProofNotification, the farmer's push events and the dispatcher
InitProofs ==
  /\ ConstructorState
  /\ \E maxInfos \in 1..2 :
       config = ConfigOf(<<FALSE>>, Services \ {farmerService}, maxInfos, 2)

NextProofs ==
  \/ InitConfig
  \/ Tick
  \/ TimerExpired
  \/ TransportDone
  \/ NewSignagePoint
  \/ NewFarmingInfo
  \/ UpdateStats
  \/ FarmerNotified

SpecProofs == InitProofs /\ [][NextProofs]_vars

(* ---- the farmer's push events under a clock that is set back *)
\* new Date() and moment() read the system clock, which an adjustment may
\* set back between two events; the adjustments count among the events
\* explored
ClockSetBack ==
  /\ now > 0 /\ events < MaxEvents
  /\ \E time \in 0..(now - 1) : now' = time
  /\ last' = [op |-> "clockSetBack"]
  /\ events' = events + 1
  /\ UNCHANGED <<aux, config, phase, heap, stats, partialStats, throttle, inflight, view, enabledServices,
                 isServiceRunning, walletIsLoggedIn, farmingInfos, harvesterResponseTimes, notices,
                 tasks, burst, enqueued>>

\* the farmer as the only enabled service, with a window of one or two
\* response times
InitClock ==
  /\ ConstructorState
  /\ \E sampleSize \in 1..2 :
       config = ConfigOf(<<FALSE>>, Services \ {farmerService}, 2, sampleSize)

NextClock ==
  \/ InitConfig
  \/ Tick
  \/ ClockSetBack
  \/ TimerExpired
  \/ TransportDone
  \/ NewSignagePoint
  \/ NewFarmingInfo

SpecClock == InitClock /\ [][NextClock]_vars

(* ------------------------------------------------------------ properties *)
WrapVals(m) == [s \in DOMAIN m |-> Val(m[s])]

\* a throttle window that was opened from the idle dispatcher by a
\* setStatsForService request has just closed; every request of the window
\* came before the window's end and nothing else was enqueued in it
BurstClosed ==
  /\ last.op = "timerExpired"
  /\ last.burst.open /\ last.burst.valid
  /\ last.burst.n >= 2

\* C1 as stated: N >= 2 requests faster than the window give exactly two
\* transmissions and the trailing one carries the deep merge of all N partials
C1_TrailingCarriesAllPartials ==
  BurstClosed =>
    /\ last.burst.tx = 2
    /\ Len(last.d.out) = 1
    /\ last.d.out[1] = WrapVals(last.burst.all)

\* C1 as amended: exactly two transmissions, the leading one at the first
\* request; the trailing one carries the deep merge of the partials of the
\* requests 2..N only (in compatibility mode: the whole Snapshot of every
\* kind these requests updated)
C1_TrailingCarriesLaterPartials ==
  /\ (burst.open /\ burst.valid) => burst.tx = 1
  /\ BurstClosed =>
       /\ last.burst.tx = 2
       /\ Len(last.d.out) = 1
       /\ IF enableCompatibilityMode
          THEN /\ DOMAIN last.d.out[1] = DOMAIN last.burst.tail
               /\ \A s \in DOMAIN last.burst.tail :
                    /\ s \in DOMAIN last.snapshot
                    /\ last.d.out[1][s] = Val(last.snapshot[s])
          ELSE last.d.out[1] = WrapVals(last.burst.tail)

\* a window of at least two requests has closed in which the later requests
\* did not repeat the whole of the first
C1_Witness ==
  /\ BurstClosed
  /\ ~enableCompatibilityMode
  /\ last.burst.tail # last.burst.all

\* C2: a payload handed to the transport keeps the value it had when it was
\* issued for as long as the transmission is in flight, whatever is enqueued
\* or handled meanwhile
C2_InflightPayloadUnchanged ==
  \A i \in DOMAIN inflight : Resolve(inflight[i].payload, heap) = inflight[i].issued

\* a probe has just found a service not running whose Snapshot was present
StoppedWithSnapshot ==
  /\ last.op = "detect"
  /\ ~last.isRunning
  /\ last.had

\* C5: after that step the Snapshot is gone, the dispatcher has been called,
\* and the tombstone of the kind is pending or is carried by the
\* transmission this call has issued
C5_StopDeletesAndTombstones ==
  StoppedWithSnapshot =>
    /\ stats[last.service] = 0
    /\ throttle.called /\ throttle.lastCallTime = now
    /\ \/ /\ last.d.out = <<>>
          /\ Has(partialStats, last.service)
          /\ partialStats[last.service] = Tombstone
          /\ throttle.lastArgs /\ throttle.timer
       \/ /\ Len(last.d.out) = 1
          /\ Has(last.d.out[1], last.service)
          /\ last.d.out[1][last.service] = Tombstone

\* the stop is detected in the middle of a window opened by another
\* service's update, with a partial of that other service pending
C5_Witness ==
  /\ StoppedWithSnapshot
  /\ last.d.midWindow
  /\ last.d.out = <<>>
  /\ \E s \in DOMAIN partialStats : s # last.service /\ partialStats[s] # Tombstone

\* C6: the buffer never holds more entries than the configured maximum
C6_BufferWithinMaximum == Len(farmingInfos) <= maximumFarmingInfos

NoticeKey(n) == <<n.challenge, n.sp>>
InfoKey(e) == <<e.challenge, e.signagePoint>>
DistinctKeys(ns) == \A i, j \in DOMAIN ns : i # j => NoticeKey(ns[i]) # NoticeKey(ns[j])
SortedByReceivedAt(infos) ==
  \A i, j \in DOMAIN infos : i < j => infos[i].receivedAt >= infos[j].receivedAt
KeysOf(infos) == {InfoKey(infos[i]) : i \in DOMAIN infos}
LatestKeys(ns, n) == {NoticeKey(ns[i]) : i \in (Len(ns) - n + 1)..Len(ns)}

\* C7: after more notices than the capacity, all with different keys, the
\* buffer holds exactly capacity entries, later receivedAt first, and they
\* are those of the latest notices
C7_KeepsMostRecent ==
  (DistinctKeys(notices) /\ Len(notices) > maximumFarmingInfos) =>
    /\ Len(farmingInfos) = maximumFarmingInfos
    /\ SortedByReceivedAt(farmingInfos)
    /\ KeysOf(farmingInfos) = LatestKeys(notices, maximumFarmingInfos)

\* C8: no two entries of the buffer have the same challenge and signage point
C8_KeysUnique ==
  \A i, j \in DOMAIN farmingInfos : i # j => InfoKey(farmingInfos[i]) # InfoKey(farmingInfos[j])

\* a notice for a key the buffer already held has been handled next to
\* another entry
C8_Witness ==
  /\ last.op \in {"onNewSignagePoint", "onNewFarmingInfo"}
  /\ last.before # <<>>
  /\ Len(farmingInfos) >= 2

\* the latest notice is a farming info and so is the one before it for the
\* same key, so no signage point for the key came in between
PreviousNotice ==
  LET n == Len(notices)
  IN IF \E i \in 1..(n - 1) : NoticeKey(notices[i]) = NoticeKey(notices[n])
     THEN CHOOSE i \in 1..(n - 1) :
            /\ NoticeKey(notices[i]) = NoticeKey(notices[n])
            /\ \A j \in (i + 1)..(n - 1) : NoticeKey(notices[j]) # NoticeKey(notices[n])
     ELSE 0

SecondFarmingInfo ==
  /\ last.op = "onNewFarmingInfo"
  /\ PreviousNotice # 0
  /\ notices[PreviousNotice].kind = "farmingInfo"

AddCounters(a, b) ==
  [proofs |-> a.proofs + b.proofs, passedFilter |-> a.passedFilter + b.passedFilter,
   totalPlots |-> a.totalPlots + b.totalPlots]

TwoNoticeSum ==
  AddCounters(notices[PreviousNotice].held,
              AddCounters(Counters(notices[PreviousNotice]), Counters(notices[Len(notices)])))

\* C9 as stated: after the second of two farming infos for a key the entry
\* holds what it held before the first plus the values of both
C9_TwoNoticesAccumulate ==
  SecondFarmingInfo =>
    /\ EntryOf(farmingInfos, last.challenge, last.sp) # <<>>
    /\ Counters(EntryOf(farmingInfos, last.challenge, last.sp)[1]) = TwoNoticeSum

\* C9 as amended: the same, for an entry that was still in the buffer when
\* the second notice arrived and that the capacity cut of the handler keeps
C9_TwoNoticesAccumulateWhileKept ==
  (/\ SecondFarmingInfo
   /\ last.before # <<>>
   /\ EntryOf(farmingInfos, last.challenge, last.sp) # <<>>) =>
    Counters(EntryOf(farmingInfos, last.challenge, last.sp)[1]) = TwoNoticeSum

\* the second of two farming infos with different values, the first with a
\* proof, has found its entry and left it in the buffer
C9_Witness ==
  /\ SecondFarmingInfo
  /\ last.before # <<>>
  /\ EntryOf(farmingInfos, last.challenge, last.sp) # <<>>
  /\ Counters(notices[PreviousNotice]).proofs > 0
  /\ Counters(notices[PreviousNotice]) # Counters(notices[Len(notices)])

\* C10: a farming info records one sample, the time since the entry's
\* receivedAt, at the head of the window when the buffer already held the
\* entry of its key, and records nothing when it creates the entry
C10_SampleOnlyForExistingKey ==
  last.op = "onNewFarmingInfo" =>
    harvesterResponseTimes =
      Slice(IF last.before # <<>>
            THEN <<now - last.before[1].receivedAt>> \o last.timesBefore
            ELSE last.timesBefore,
            responseTimeSampleSize)

\* a farming info for a key the buffer held has recorded a sample of positive
\* length
C10_Witness ==
  /\ last.op = "onNewFarmingInfo"
  /\ last.before # <<>>
  /\ Len(harvesterResponseTimes) = Len(last.timesBefore) + 1
  /\ harvesterResponseTimes[1] > 0

\* C3: no poll of a service is in progress next to an earlier poll of the
\* same service that has not finished
C3_OnePollPerKind ==
  \A i, j \in DOMAIN tasks :
    (i # j /\ tasks[i].kind \in Polls /\ tasks[j].kind \in Polls) =>
      tasks[i].service # tasks[j].service

\* C4: the stats the store holds for a service are those of its last
\* enqueue: no handler has written to them what it has not enqueued
C4_SnapshotMatchesEnqueued ==
  \A s \in Services : stats[s] # 0 => heap[stats[s]] = enqueued[s]

\* what the last plotting-queue event reported
LastQueue == IF last.op = "onNewPlottingQueueStats" /\ ~Has(last, "null") THEN last.queue ELSE <<>>
RemovedIds ==
  {LastQueue[i].id : i \in {j \in DOMAIN LastQueue :
                              LastQueue[j].deleted \/ LastQueue[j].state = plotterStates.FINISHED}}
JobIdsOf(jobs) == {jobs[i].id : i \in DOMAIN jobs}

\* C11: after a plotting-queue event the job table holds no finished job
\* and no job that the event reported deleted or finished, and the log map
\* holds no log for a job that the event removed
C11_RemovedJobsAndLogsGone ==
  /\ \A i \in DOMAIN JobsTable : JobsTable[i].state # plotterStates.FINISHED
  /\ JobIdsOf(JobsTable) \cap RemovedIds = {}
  /\ DOMAIN jobLogs \cap RemovedIds = {}

\* an event has removed a job that was in the table and had a log
C11_Witness ==
  /\ RemovedIds # {}
  /\ \E id \in RemovedIds : id \in JobIdsOf(last.jobsBefore)
  /\ JobsTable # <<>>
  /\ jobLogs # EmptyObj

\* the job with this id in a jobs array
JobOf(jobs, id) == jobs[FindJob(jobs, id)]
IsRunningJob(job) == job.state = plotterStates.RUNNING

\* what the last plotting-queue event did to the table
PlotterEvent == last.op = "onNewPlottingQueueStats" /\ ~Has(last, "null")
InsertedIds == JobIdsOf(JobsTable) \ JobIdsOf(last.jobsBefore)
KeptIds == JobIdsOf(JobsTable) \cap JobIdsOf(last.jobsBefore)
StateChangedIds == {id \in KeptIds : JobOf(JobsTable, id).state # JobOf(last.jobsBefore, id).state}
SizeChangedIds == {id \in KeptIds : JobOf(JobsTable, id).kSize # JobOf(last.jobsBefore, id).kSize}

\* running jobs first, running jobs by falling progress, the other jobs in
\* the order they had before the event
JobsOrdered ==
  /\ \A i, j \in DOMAIN JobsTable :
       i < j /\ IsRunningJob(JobsTable[j]) =>
         IsRunningJob(JobsTable[i]) /\ JobsTable[i].progress >= JobsTable[j].progress
  /\ \A i, j \in DOMAIN JobsTable :
       /\ i < j /\ ~IsRunningJob(JobsTable[i]) /\ ~IsRunningJob(JobsTable[j])
       /\ {JobsTable[i].id, JobsTable[j].id} \subseteq KeptIds
       => FindJob(last.jobsBefore, JobsTable[i].id) < FindJob(last.jobsBefore, JobsTable[j].id)

\* C12 as stated: after a plotting-queue event that inserts a job or changes
\* the state or the kSize of a job, the table is ordered
C12_OrderedAfterInsertStateOrSize ==
  PlotterEvent /\ InsertedIds \cup StateChangedIds \cup SizeChangedIds # {} => JobsOrdered

\* C12: after a plotting-queue event that inserts a job or changes the state
\* of a job, the table is ordered: running jobs before the others, running
\* jobs by falling progress, the others in their prior order
C12_OrderedAfterInsertOrState ==
  PlotterEvent /\ InsertedIds \cup StateChangedIds # {} => JobsOrdered

\* an event has inserted a running job in front of a running job with less
\* progress
C12_Witness ==
  /\ PlotterEvent
  /\ Len(JobsTable) = 2
  /\ JobsTable[1].id \in InsertedIds /\ JobsTable[2].id \in KeptIds
  /\ IsRunningJob(JobsTable[1]) /\ IsRunningJob(JobsTable[2])
  /\ JobsTable[1].progress > JobsTable[2].progress

\* the synced flag of the full node's stats, <<>> when there is none
SnapshotSynced ==
  IF stats[fullNodeService] # 0 THEN SyncedOf(heap[stats[fullNodeService]]) ELSE <<>>

FullNodeUpdates == {"onNewBlockchainState", "updateFullNodeStats.end"}

\* the step turns the synced flag of the stats from false to true or from
\* true to false
SyncedFlips ==
  /\ SnapshotSynced # <<>> /\ SnapshotSynced' # <<>>
  /\ SnapshotSynced # SnapshotSynced'

\* C13: every step that turns the synced flag of the full node's stats
\* requests exactly one notification, and an update of the full node's stats
\* that leaves the flag as it was requests none
C13_SyncTransitionsNotified ==
  [][/\ SyncedFlips => Len(notifications') = Len(notifications) + 1
     /\ last'.op \in FullNodeUpdates /\ ~SyncedFlips => notifications' = notifications]_vars

\* the services that the configuration excludes
ExcludedServices == Range(config.excludedServices) \cap Services

\* the pending partials and the payloads not yet settled hold nothing but a
\* tombstone for the service
OnlyTombstoneFor(service) ==
  /\ Has(partialStats, service) => partialStats[service] = Tombstone
  /\ \A i \in DOMAIN inflight :
       Has(inflight[i].payload, service) => inflight[i].payload[service] = Tombstone

\* C14: once init() has gone through the exclusions, an excluded service
\* has no stats, its running flag is false, nothing but the tombstone of the
\* exclusion is pending or under way for it, and no step enqueues an entry
\* for it again
C14_ExcludedStaysOut ==
  [][\A service \in ExcludedServices :
       /\ phase' = "running" =>
            /\ stats'[service] = 0
            /\ ~isServiceRunning'[service]
            /\ OnlyTombstoneFor(service)'
       /\ phase = "running" /\ ~Has(partialStats, service) => ~Has(partialStats', service)]_vars

\* the polls have been started and the wallet detected as running after the
\* tombstones of the excluded services have been transmitted
C14_Witness ==
  /\ phase = "running" /\ last.op = "updateStats"
  /\ isServiceRunning[walletService]
  /\ ExcludedServices = Services \ {walletService}
  /\ \A service \in ExcludedServices : ~Has(partialStats, service)
  /\ \E i \in DOMAIN tasks : tasks[i].kind = "updateWalletStats"

\* C15: a service with a pending entry that is not a tombstone has stats
C15_PendingPartialHasSnapshot ==
  \A service \in DOMAIN partialStats :
    partialStats[service] # Tombstone => stats[service] # 0

\* a partial of the wallet is pending next to the tombstone of a service
\* without stats
C15_Witness ==
  /\ Has(partialStats, walletService) /\ partialStats[walletService] # Tombstone
  /\ \E service \in DOMAIN partialStats :
       partialStats[service] = Tombstone /\ stats[service] = 0

\* the history of tryUntilSucceeded: a call returns right behind an
\* invocation of its step, a failed invocation is followed by nothing but
\* another invocation of the same step, and a first invocation follows the
\* return of the step before
TraceInOrder ==
  \A i \in DOMAIN boot.trace :
    LET e == boot.trace[i]
        prev == boot.trace[i - 1]
    IN /\ e.what \in {"return", "throw"} =>
            i > 1 /\ prev = [step |-> e.step, what |-> "invoke"]
       /\ e.what = "invoke" /\ i > 1 =>
            \/ prev = [step |-> e.step, what |-> "throw"]
            \/ prev.what = "return" /\ prev.step # e.step

\* behind a failed invocation the loop sleeps or stands before the next one
RetryPending ==
  boot.trace # <<>> /\ boot.trace[Len(boot.trace)].what = "throw"
    => boot.loop \in {"sleeping", "top"} /\ boot.inProgress = 0

\* C16: tryUntilSucceeded returns only behind an invocation that did not
\* fail, a failed invocation is followed by the wait and another invocation
\* of the same step, at most one invocation is in progress, and when the
\* failures end every call of tryUntilSucceeded returns
C16_TryUntilSucceeded ==
  /\ [](TraceInOrder /\ RetryPending /\ boot.inProgress <= 1)
  /\ (boot.loop = "sleeping") ~> (boot.loop = "awaiting")
  /\ \A k \in DOMAIN BootSteps : (boot.pc = k) ~> (boot.pc = k + 1)

\* a call of tryUntilSucceeded has returned behind a failed and a second
\* invocation of its step
C16_Witness ==
  \E i \in DOMAIN boot.trace :
    /\ i > 2
    /\ boot.trace[i].what = "return"
    /\ boot.trace[i - 2] = [step |-> boot.trace[i].step, what |-> "throw"]

\* the steps that have returned up to entry n of the history, in the order
\* of their return
ReturnedUpTo(n) ==
  LET returns == SelectSeq(SubSeq(boot.trace, 1, n), LAMBDA e : e.what = "return")
  IN [i \in DOMAIN returns |-> returns[i].step]

BootOrder == <<"updateRunningServices", "updateStats", "updateFullNodeStats",
               "updateSummaryReport">>

\* C17: the steps of the bootstrap succeed in the order detection, stats,
\* full node, summary, each once; a step is invoked only when all steps
\* before it and no other have succeeded; and no timer is installed before
\* all four have succeeded
C17_BootstrapInOrder ==
  /\ \E n \in 0..Len(BootOrder) : ReturnedUpTo(Len(boot.trace)) = SubSeq(BootOrder, 1, n)
  /\ \A i \in DOMAIN boot.trace :
       boot.trace[i].what = "invoke" =>
         \E k \in DOMAIN BootOrder :
           /\ BootOrder[k] = boot.trace[i].step
           /\ ReturnedUpTo(i - 1) = SubSeq(BootOrder, 1, k - 1)
  /\ boot.timers # {} => ReturnedUpTo(Len(boot.trace)) = BootOrder
  /\ HasTask({"updateFullNodeStats"}) =>
       ReturnedUpTo(Len(boot.trace)) = SubSeq(BootOrder, 1, 2) /\ boot.loop = "awaiting"

\* the timers are installed behind a bootstrap in which an invocation failed
C17_Witness ==
  /\ boot.timers = Timers
  /\ boot.failures > 0
  /\ isServiceRunning[fullNodeService]
  /\ stats[fullNodeService] # 0

\* the entries of the history in which a timer's callback caught a failure
CaughtAt == {i \in DOMAIN boot.trace : boot.trace[i].what = "caught"}

\* C18: once the timers are installed they stay installed and init() stays
\* where it is, whatever failures their callbacks have caught, so that every
\* timer goes on firing
C18_TimersSurviveFailures ==
  boot.pc = Len(BootSteps) + 1 => boot.timers = Timers /\ Running

\* behind a failure caught in a cycle of the stats refresh, the same timer
\* and another timer have fired again
C18_Witness ==
  \E i \in CaughtAt :
    /\ boot.trace[i].step = "updateStats"
    /\ \E j, k \in (i + 1)..Len(boot.trace) :
         /\ boot.trace[j] = [step |-> "updateStats", what |-> "fire"]
         /\ boot.trace[k] = [step |-> "updateRunningServices", what |-> "fire"]


\* the steps that handle a notice without payload
NullEvents == {"onNewBlockchainStateNull", "onNewSignagePointNull", "onNewFarmingInfoNull",
               "onNewPlottingQueueStats"}
NullEventStep == last'.op \in NullEvents /\ (last'.op = "onNewPlottingQueueStats" => Has(last', "null"))

\* the stats of every service and the pending partial, by value
SnapshotStore == [s \in {x \in Services : stats[x] # 0} |-> heap[stats[s]]]
PendingDelta == Resolve(partialStats, heap)

\* C19: a push event without payload (blockchain state, signage point,
\* farming info, plotting queue) leaves the stats of every service, the
\* pending partial, the farming infos, the response times and the job logs
\* as they were, and its handler does not throw
C19_NullPayloadIsNoOp ==
  [][NullEventStep =>
       /\ SnapshotStore' = SnapshotStore
       /\ PendingDelta' = PendingDelta
       /\ UNCHANGED <<farmingInfos, harvesterResponseTimes, jobLogs>>
       /\ (Has(last', "thrown") => ~last'.thrown)]_vars

\* a push event of the full node found a Snapshot and left it as it was:
\* the handler computed no partial
AbsentDiffStep ==
  /\ last'.op \in {"onNewBlockchainState", "onConnectionChange"}
  /\ Has(SnapshotStore, fullNodeService)
  /\ SnapshotStore' = SnapshotStore

\* the entry such a step enqueues for the full node: the placeholder merged
\* into what was pending, the whole Snapshot in compatibility mode
PendingOf(delta, service) ==
  IF Has(delta, service) /\ delta[service].t = "val" THEN delta[service].v ELSE EmptyObj
PlaceholderEntry ==
  IF enableCompatibilityMode THEN Val(SnapshotStore[fullNodeService])
  ELSE Val(mergeWith(PendingOf(PendingDelta, fullNodeService), [dummyToUpdateDate |-> TRUE]))

\* C20 as stated: a full node update that changes no field of the Snapshot
\* enqueues nothing in the pending partial and hands nothing to the
\* transport
C20_AbsentDiffEnqueuesNothing ==
  [][AbsentDiffStep => PendingDelta' = PendingDelta /\ last'.d.out = <<>>]_vars

\* C20 amended: a full node update that changes no field of the Snapshot
\* enqueues the placeholder partial for the full node (the whole Snapshot in
\* compatibility mode) and calls the dispatcher: either the pending partial
\* with that entry is handed to the transport in the same step and nothing
\* is left pending, or the entry is pending with the timer of the window
\* running
C20_AbsentDiffEnqueuesPlaceholder ==
  [][AbsentDiffStep =>
       IF last'.d.out = <<>>
       THEN /\ Has(PendingDelta', fullNodeService)
            /\ PendingDelta'[fullNodeService] = PlaceholderEntry
            /\ throttle'.timer
       ELSE /\ Len(last'.d.out) = 1
            /\ Has(last'.d.out[1], fullNodeService)
            /\ last'.d.out[1][fullNodeService] = PlaceholderEntry
            /\ PendingDelta' = EmptyObj]_vars

\* the same blockchain state arrived again with no window open and without
\* compatibility mode: the placeholder alone went to the transport
C20_Witness ==
  /\ last.op = "onNewBlockchainState"
  /\ ~enableCompatibilityMode
  /\ ~last.d.midWindow
  /\ last.d.out = <<[fullNode |-> Val([dummyToUpdateDate |-> TRUE])]>>

\* the leaves of next that differ from prior's, each under its path
RECURSIVE LeafDiff(_, _)
LeafDiff(prior, next) ==
  [k \in {x \in DOMAIN next : prior[x] # next[x]} |->
     IF k \in PlainObjectKeys THEN LeafDiff(prior[k], next[k]) ELSE next[k]]

\* C21: for two blockchain states, and for the statistics of a pool of plots
\* at two polls, the diff returns exactly the leaves whose values differ,
\* each with the value of the second, and nothing when the two are equal
C21_DiffIsExact ==
  last.op = "returned" => last.partial = LeafDiff(last.prior, last.next)

\* r is b applied over a: the keys of both, a's value where b has none, b's
\* value otherwise, key by key inside nested objects
RECURSIVE AppliedOver(_, _, _)
AppliedOver(a, b, r) ==
  /\ DOMAIN r = DOMAIN a \cup DOMAIN b
  /\ \A k \in DOMAIN r :
       IF k \notin DOMAIN b THEN r[k] = a[k]
       ELSE IF k \in PlainObjectKeys /\ k \in DOMAIN a THEN AppliedOver(a[k], b[k], r[k])
       ELSE r[k] = b[k]

EnqueuedOverPending ==
  /\ last.op = "setStatsForServiceWithoutUpdate"
  /\ last.pending # EmptyObj

\* C22: a partial enqueued for a kind that has a partial pending (no flush
\* in between) leaves the later one applied over the earlier one: nested
\* objects merged key by key with the later value winning, keys of the
\* earlier one alone kept, an array taken whole from the later one
C22_LaterAppliedOverEarlier ==
  last.op = "setStatsForServiceWithoutUpdate" =>
    /\ Has(PendingDelta, walletService)
    /\ PendingDelta[walletService].t = "val"
    /\ AppliedOver(last.pending, last.partial, PendingDelta[walletService].v)

\* an array of two wallets and a sync status were pending, and the later
\* partial brought an array of one wallet and another field of the sync status
C22_Witness ==
  /\ EnqueuedOverPending
  /\ Has(last.pending, "wallets") /\ Len(last.pending.wallets) = 2
  /\ Has(last.partial, "wallets") /\ Len(last.partial.wallets) = 1
  /\ Has(last.pending, "syncStatus") /\ Has(last.partial, "syncStatus")
  /\ DOMAIN last.pending.syncStatus # DOMAIN last.partial.syncStatus
  /\ Has(last.pending, "fingerprint") /\ ~Has(last.partial, "fingerprint")
  /\ PendingDelta[walletService].v.wallets = last.partial.wallets

FullNodePushes == {"onNewBlockchainState", "onConnectionChange"}

\* the entry of the full node is its whole Snapshot: the one pending, or the
\* one in the payload the step handed to the transport
EnqueuedWholeSnapshot ==
  /\ Has(SnapshotStore', fullNodeService)
  /\ IF last'.d.out = <<>>
     THEN /\ Has(PendingDelta', fullNodeService)
          /\ PendingDelta'[fullNodeService] = Val(SnapshotStore'[fullNodeService])
     ELSE /\ Has(last'.d.out[Len(last'.d.out)], fullNodeService)
          /\ last'.d.out[Len(last'.d.out)][fullNodeService] = Val(SnapshotStore'[fullNodeService])

\* every entry handed to the transport is a tombstone or the whole Snapshot
\* of its service
TransmittedWholeSnapshots ==
  \A i \in DOMAIN last'.d.out : \A service \in DOMAIN last'.d.out[i] :
    last'.d.out[i][service] # Tombstone =>
      /\ Has(SnapshotStore', service)
      /\ last'.d.out[i][service] = Val(SnapshotStore'[service])

\* C23: in compatibility mode every update of the full node enqueues the
\* whole Snapshot of the full node, whatever partial the handler computed,
\* and every entry handed to the transport that is no tombstone is the whole
\* Snapshot of its service
C23_CompatibilityEnqueuesSnapshot ==
  [][enableCompatibilityMode =>
       /\ (last'.op \in FullNodePushes => EnqueuedWholeSnapshot)
       /\ (Has(last', "d") => TransmittedWholeSnapshots)]_vars

\* in compatibility mode a connection change found a Snapshot with a
\* blockchain state, and the payload of the step carries both
C23_Witness ==
  /\ enableCompatibilityMode
  /\ last.op = "onConnectionChange"
  /\ Len(last.d.out) = 1
  /\ Has(last.d.out[1], fullNodeService)
  /\ last.d.out[1][fullNodeService].t = "val"
  /\ DOMAIN last.d.out[1][fullNodeService].v = {"blockchainState", "fullNodeConnectionsCount"}

\* the entry of the signage point the last step handled, as the buffer holds
\* it now
HandledEntry == EntryOf(farmingInfos, last.challenge, last.sp)

\* C24: a signage point for a key the buffer holds adds no entry, sets the
\* counters of that entry to 0 and its receivedAt and lastUpdated to the
\* time of arrival; a signage point for a new key adds one entry with
\* counters of 0; the buffer is then ordered, later receivedAt first
C24_SignagePointResetsEntry ==
  last.op = "onNewSignagePoint" =>
    /\ Len(farmingInfos) = last.lenBefore + (IF last.before = <<>> THEN 1 ELSE 0)
    /\ HandledEntry # <<>>
    /\ HandledEntry[1].proofs = 0
    /\ HandledEntry[1].passedFilter = 0
    /\ HandledEntry[1].totalPlots = 0
    /\ HandledEntry[1].receivedAt = now
    /\ HandledEntry[1].lastUpdated = now
    /\ SortedByReceivedAt(farmingInfos)

\* a signage point arrived again for an entry that had counted proofs at an
\* earlier time and stood behind a later entry
C24_Witness ==
  /\ last.op = "onNewSignagePoint"
  /\ last.before # <<>>
  /\ last.before[1].proofs > 0
  /\ last.before[1].receivedAt < now
  /\ Len(farmingInfos) >= 2
  /\ InfoKey(farmingInfos[1]) = <<last.challenge, last.sp>>
  /\ farmingInfos[2].receivedAt > last.before[1].receivedAt

\* a partial with farming infos is pending for the farmer
FarmingInfosPending(delta) ==
  /\ Has(delta, farmerService)
  /\ delta[farmerService].t = "val"
  /\ Has(delta[farmerService].v, "farmingInfos")

FarmerHandlers == {"onNewSignagePoint", "onNewFarmingInfo"}
FarmerDeleted == last'.op = "detect" /\ last'.service = farmerService /\ ~last'.isRunning

\* a signage point: the farming infos of the buffer are in the Snapshot and
\* pending, nothing is handed to the transport, the throttle is as it was
SignagePointOnlyEnqueues ==
  last'.op = "onNewSignagePoint" =>
    /\ SnapshotStore'[farmerService].farmingInfos = getFarmingInfosForApi(farmingInfos')
    /\ FarmingInfosPending(PendingDelta')
    /\ PendingDelta'[farmerService].v.farmingInfos = getFarmingInfosForApi(farmingInfos')
    /\ last'.d.out = <<>>
    /\ UNCHANGED <<throttle, inflight>>

\* the step hands a payload to the transport while farming infos are pending
TransmitsWithPending ==
  /\ Has(last', "d") /\ last'.d.out # <<>>
  /\ FarmingInfosPending(PendingDelta)

\* the payload carries the farmer's pending partial: as it was, or with what
\* a farmer handler merged into it in the same step
CarriesPending ==
  /\ FarmingInfosPending(last'.d.out[1])
  /\ last'.op \notin FarmerHandlers => last'.d.out[1][farmerService] = PendingDelta[farmerService]

DetectTasks == {i \in DOMAIN tasks : tasks[i].kind = "detect"}

\* C26: a detection cycle probes every enabled service but the plotter; the
\* wallet is recorded as running only with walletIsLoggedIn set, so not
\* when getPublicKeys returned no key, and no updateWalletStats is in
\* progress before the login
C26_WalletRunningOnlyLoggedIn ==
  /\ isServiceRunning[walletService] => walletIsLoggedIn
  /\ \A i \in DOMAIN tasks : tasks[i].kind = "updateWalletStats" => walletIsLoggedIn
  /\ \A i \in DetectTasks : tasks[i].service \in enabledServices \ {plotterService}
  /\ last.op = "updateRunningServices" =>
       \A service \in enabledServices \ {plotterService} :
         \E i \in DetectTasks : tasks[i].service = service /\ tasks[i].pc = "isServiceRunning"
  /\ (last.op = "detect" /\ last.service = walletService /\ ~walletIsLoggedIn) =>
       ~isServiceRunning[walletService]

\* with the plotter enabled the wallet has logged in, is recorded as running
\* and a poll of it waits for an answer
C26_Witness ==
  /\ plotterService \in enabledServices
  /\ phase = "running"
  /\ walletIsLoggedIn
  /\ isServiceRunning[walletService]
  /\ \E i \in DOMAIN tasks : tasks[i].kind = "updateWalletStats"

\* a farmer re-evaluation pass starts in this step
PassStarts == last'.op = "updateStats" /\ isServiceEnabled(farmerService)

\* a farmer re-evaluation pass ends in this step: at once when it requests
\* no notification, otherwise when the request has answered
PassEnds ==
  \/ PassStarts /\ ~last'.waits
  \/ last'.op = "updateFarmerStats"

\* C27: a farmer pass computes delta as the sum of the proofs over the buffer
\* less the baseline the previous pass stored, 0 if none; it requests a
\* proof-found notification carrying delta exactly when delta > 0; after the
\* pass the stored baseline is the sum of the proofs over the buffer
C27_BaselineIsBufferSum ==
  [][/\ PassStarts =>
         LET delta == ProofCount(farmingInfos) - last'.lastProofCount
         IN /\ delta > 0 => notifications' = Append(notifications, NewProofMessage(delta))
            /\ delta <= 0 => notifications' = notifications
            /\ last'.waits <=> delta > 0
     /\ PassEnds =>
         /\ stats'[farmerService] # 0
         /\ Has(heap'[stats'[farmerService]], "lastProofCount")
         /\ heap'[stats'[farmerService]].lastProofCount = ProofCount(farmingInfos')]_vars

\* the greatest of the samples of a window that holds one at least
MaxSample(times) == CHOOSE m \in Range(times) : \A x \in Range(times) : m >= x

\* q is the mean of the samples, as a quotient in lowest terms
IsMean(q, times) ==
  /\ q[2] > 0 /\ Gcd(Abs(q[1]), q[2]) = 1
  /\ q[1] * Len(times) = q[2] * Sum(times)

\* the window after a farming info: the sample of this notice, taken when
\* the buffer held its key already, before the samples of the window so far,
\* cut to the configured size
WindowSlides ==
  LET sampled == IF last.before # <<>>
                 THEN <<now - last.before[1].receivedAt>> ELSE <<>>
  IN /\ Len(harvesterResponseTimes) <= responseTimeSampleSize
     /\ harvesterResponseTimes =
          SubSeq(sampled \o last.timesBefore, 1, Len(harvesterResponseTimes))
     /\ Len(harvesterResponseTimes) =
          Min(responseTimeSampleSize, Len(sampled) + Len(last.timesBefore))

\* C28: after a farming info worstHarvesterResponseTime is the maximum of
\* the signed samples of the window and averageHarvesterResponseTime is their
\* mean, the window holding the newest samples, at most as many as the
\* configured size; with no sample both are null
C28_WorstIsMaxOfSamples ==
  last.op = "onNewFarmingInfo" =>
    /\ WindowSlides
    /\ IF harvesterResponseTimes = <<>>
       THEN /\ FarmerStats.averageHarvesterResponseTime = Null
            /\ FarmerStats.worstHarvesterResponseTime = Null
       ELSE /\ IsMean(FarmerStats.averageHarvesterResponseTime, harvesterResponseTimes)
            /\ FarmerStats.worstHarvesterResponseTime = Num(MaxSample(harvesterResponseTimes))

\* the last step handed a payload to the transport and left nothing pending
FlushedAll == Has(last, "d") /\ last.d.out # <<>> /\ partialStats = EmptyObj

\* what the view and the store hold of a service, nothing counting as {}
ViewOf(service) == IF Has(view, service) THEN view[service] ELSE EmptyObj
StoreOf(service) == IF stats[service] # 0 THEN heap[stats[service]] ELSE EmptyObj

\* C29: without compatibility mode, the view built from the transmitted
\* payloads in their order equals the store for every service after every
\* flush that leaves nothing pending
C29_ViewEqualsStore ==
  (~enableCompatibilityMode /\ FlushedAll) =>
    \A service \in Services : ViewOf(service) = StoreOf(service)

\* the Snapshot of an enabled service is deleted and the service is not
\* recorded as running: only updateRunningServices deletes the Snapshot of an
\* enabled service, when it finds the service not running
DeletedAsStopped(service) ==
  /\ isServiceEnabled(service)
  /\ phase = "running"
  /\ stats[service] = 0
  /\ ~isServiceRunning[service]

\* the payloads the step hands to the transport carry nothing but null for
\* the service
TransmitsOnlyNull(service) ==
  Has(last', "d") =>
    \A i \in DOMAIN last'.d.out :
      Has(last'.d.out[i], service) => last'.d.out[i][service] = Tombstone

\* C30: from the deletion of the Snapshot of a service found not running
\* until a detection records the service as running again, the store holds
\* no Snapshot of it and nothing but null is enqueued or transmitted for it
C30_DeletedStaysDeleted ==
  [][\A service \in Services :
       (DeletedAsStopped(service) /\ ~isServiceRunning'[service]) =>
         /\ stats'[service] = 0
         /\ Has(partialStats', service) => partialStats'[service] = Tombstone
         /\ TransmitsOnlyNull(service)]_vars

\* a null, or a partial, is pending for the service
PendingNull(service) == Has(partialStats, service) /\ partialStats[service] = Tombstone
PendingPartial(service) == Has(partialStats, service) /\ partialStats[service] # Tombstone

\* the step hands a payload to the transport that carries a null, or a
\* partial, for the service
HandsOverNull(service) ==
  /\ Has(last', "d")
  /\ \E i \in DOMAIN last'.d.out :
       Has(last'.d.out[i], service) /\ last'.d.out[i][service] = Tombstone
HandsOverPartial(service) ==
  /\ Has(last', "d")
  /\ \E i \in DOMAIN last'.d.out :
       Has(last'.d.out[i], service) /\ last'.d.out[i][service] # Tombstone

\* C31: every partial and every null enqueued is handed to the transport in
\* some transmission.  What is pending can only be handed over while it is
\* pending, so each step leaves a pending null pending or hands it over, and
\* a pending partial (merged with what the step enqueues) likewise, unless
\* the step deletes the Snapshot and the null stands for it; a run with a
\* step that does neither refutes the statement
C31_EnqueuedIsHandedOver ==
  [][\A service \in Services :
       /\ PendingNull(service) => PendingNull(service)' \/ HandsOverNull(service)
       /\ PendingPartial(service) =>
            \/ PendingPartial(service)' \/ HandsOverPartial(service)
            \/ PendingNull(service)' \/ HandsOverNull(service)]_vars

\* the proofs reported by the farming-info notices handled so far
IsFarmingInfoNotice(notice) == notice.kind = "farmingInfo"
ReportedProofs == ProofCount(SelectSeq(notices, IsFarmingInfoNotice))

\* the count a proof-found notification carries, read back from its message;
\* no pass finds more new proofs than the notices have reported
IsProofFound(message) == \E count \in 0..ReportedProofs : NewProofMessage(count) = message
DeltaCarried(message) == CHOOSE count \in 0..ReportedProofs : NewProofMessage(count) = message
NotifiedProofs ==
  LET found == SelectSeq(notifications, IsProofFound)
  IN Sum([i \in DOMAIN found |-> DeltaCarried(found[i])])

\* C32: no farmed proof is lost or counted twice by the proof-found
\* notifications: once a pass has made its request, the counts carried by all
\* the proof-found notifications add up to the proofs that the farming-info
\* notices handled before that pass have reported
C32_NotifiedIsReported ==
  [][PassStarts => NotifiedProofs' = ReportedProofs]_vars
====
